---- MODULE Spec2Model ----
(***************************************************************************)
(* Model of the gita-gpt conversational backend: the conversation store    *)
(* (ConversationManager and the /conversations endpoints), the /chat       *)
(* orchestration pipeline with its stage-local fallbacks and its           *)
(* authentication, the mood log with its calendar and analytics, and the   *)
(* deletion of an account.                                                 *)
(*                                                                         *)
(* Numbers that are floats in the program (confidences, distances,         *)
(* similarity scores) are integers in units of 1/10000.                    *)
(***************************************************************************)
EXTENDS Integers, Sequences, FiniteSets, TLC

(* ------------------------------ bounds --------------------------------- *)
MaxSessions == 2
MaxMessages == 3
MaxChats == 1
ChatMaxMessages == 1

(* -------------------------- program constants -------------------------- *)
MaxInputLen == 5000
DefaultWindow == 10
MemoryWindow == 5
TopK == 3
Threshold == 3000
NeutralConfidence == 5000
DefaultSimilarity == 5000
One == 10000

Users == {"u1", "u2"}
SessionIds == 1..MaxSessions
\* a well-formed UUID that names no row of conversation_sessions
UnknownId == 0
\* the value of uuid.uuid4() in chat: fresh, hence not a key of the store
ThrowawayId == -1
\* request.session_id is None
NoId == -2

InteractionMode == {"socratic", "wisdom", "story"}
MessageRole == {"user", "assistant"}

Null == [present |-> FALSE]

RoleEnum(v) == [py_type |-> "MessageRole", value |-> v]
RoleStr(v) == [py_type |-> "str", value |-> v]

(* ------------------------------ state ---------------------------------- *)
VARIABLES
    users,            \* rows of the users table (ids)
    sessions,         \* conversation_sessions: id -> row
    messages,         \* conversation_messages, in insertion order
    emotion_logs,     \* emotion_logs, in insertion order
    api,              \* the last response of a /conversations endpoint
    am,               \* concurrent add_message calls in flight
    chat,             \* the /chat request being processed
    chats             \* number of /chat requests started

vars == <<users, sessions, messages, emotion_logs, api, am, chat, chats>>

FreeSession == [state |-> "free", user_id |-> "", ended_at |-> FALSE,
                interaction_mode |-> "", summary |-> "", message_count |-> 0]

Live(sess, sid) == sid \in SessionIds /\ sess[sid].state = "live"

(* ------------------------- sequence helpers ---------------------------- *)
RECURSIVE SelectSession(_, _)
SelectSession(msgs, sid) ==
    IF msgs = <<>> THEN <<>>
    ELSE IF Head(msgs).session_id = sid
         THEN <<Head(msgs)>> \o SelectSession(Tail(msgs), sid)
         ELSE SelectSession(Tail(msgs), sid)

\* insertion of m into a list ordered by descending sequence_number
RECURSIVE InsertDesc(_, _)
InsertDesc(m, sorted) ==
    IF sorted = <<>> THEN <<m>>
    ELSE IF Head(sorted).sequence_number >= m.sequence_number
         THEN <<Head(sorted)>> \o InsertDesc(m, Tail(sorted))
         ELSE <<m>> \o sorted

RECURSIVE OrderByDescSeq(_)
OrderByDescSeq(msgs) ==
    IF msgs = <<>> THEN <<>>
    ELSE InsertDesc(Head(msgs), OrderByDescSeq(Tail(msgs)))

Limit(s, n) == IF Len(s) <= n THEN s ELSE SubSeq(s, 1, n)

RECURSIVE Reverse(_)
Reverse(s) == IF s = <<>> THEN <<>> ELSE Reverse(Tail(s)) \o <<Head(s)>>

(* ----------------------- ConversationManager --------------------------- *)
\* create_session: the user must exist; the new row gets a fresh id.
FreshSessionIds(sess) == {i \in SessionIds : sess[i].state = "free"}

NewSessionId(sess) == CHOOSE i \in FreshSessionIds(sess) :
                          \A j \in FreshSessionIds(sess) : i <= j

CreateSession(usrs, sess, user_id, mode, commit_ok) ==
    IF user_id \notin usrs
    THEN [raised |-> TRUE, error |-> "ValueError", sessions |-> sess, id |-> NoId]
    ELSE IF ~commit_ok
    THEN [raised |-> TRUE, error |-> "DBError", sessions |-> sess, id |-> NoId]
    ELSE LET id == NewSessionId(sess) IN
         [raised |-> FALSE, error |-> "none",
          sessions |-> [sess EXCEPT ![id] =
                          [state |-> "live", user_id |-> user_id, ended_at |-> FALSE,
                           interaction_mode |-> mode, summary |-> "",
                           message_count |-> 0]],
          id |-> id]

\* the row with the highest sequence number of the session, or none
LastSequence(msgs, sid) ==
    LET own == OrderByDescSeq(SelectSession(msgs, sid)) IN
    IF own = <<>> THEN 0 ELSE Head(own).sequence_number

\* (a variant that numbers over the whole table instead of the session)
NextSequenceNumber_AllSessions(msgs, sid) == Len(msgs) + 1

NextSequenceNumber(msgs, sid) == LastSequence(msgs, sid) + 1

ConfidenceInRange(emotion_data) ==
    ~emotion_data.present
    \/ (emotion_data.confidence >= 0 /\ emotion_data.confidence <= One)

NewMessage(sid, role, content, emotion_data, verse_id, seq) ==
    [session_id |-> sid, role |-> role.value, content |-> content,
     emotion_data |-> emotion_data, verse_id |-> verse_id,
     sequence_number |-> seq]

\* the INSERT and the UPDATE of message_count are flushed in one commit
\* (a variant that commits the INSERT without the UPDATE of the counter)
CommitMessage_InsertOnly(sess, msgs, sid, message, read_count) ==
    [sessions |-> sess,
     messages |-> Append(msgs, message)]

CommitMessage(sess, msgs, sid, message, read_count) ==
    [sessions |-> [sess EXCEPT ![sid].message_count = read_count + 1],
     messages |-> Append(msgs, message)]

AddMessage(sess, msgs, sid, role, content, emotion_data, verse_id, commit_ok) ==
    LET unchanged(err) == [raised |-> TRUE, error |-> err,
                           sessions |-> sess, messages |-> msgs]
    IN
    IF ~Live(sess, sid) THEN unchanged("ValueError")
    ELSE IF role.py_type # "MessageRole" THEN unchanged("AttributeError")
    ELSE IF role.value \notin MessageRole
            \/ ~ConfidenceInRange(emotion_data)
            \/ ~commit_ok
    THEN unchanged("DBError")
    ELSE LET seq == NextSequenceNumber(msgs, sid)
             m == NewMessage(sid, role, content, emotion_data, verse_id, seq)
             st == CommitMessage(sess, msgs, sid, m, sess[sid].message_count)
         IN [raised |-> FALSE, error |-> "none",
             sessions |-> st.sessions, messages |-> st.messages]

\* (a variant that orders ascending before the limit)
GetContext_OldestFirst(sess, msgs, sid, window_size, query_ok) ==
    IF ~query_ok
    THEN [raised |-> TRUE, error |-> "DBError", messages |-> <<>>, total_messages |-> 0]
    ELSE IF ~Live(sess, sid)
    THEN [raised |-> TRUE, error |-> "ValueError", messages |-> <<>>, total_messages |-> 0]
    ELSE LET w == IF window_size = 0 THEN MemoryWindow * 2 ELSE window_size
             own == SelectSession(msgs, sid)
         IN [raised |-> FALSE, error |-> "none",
             messages |-> Limit(Reverse(OrderByDescSeq(own)), w),
             total_messages |-> Len(own)]

GetContext(sess, msgs, sid, window_size, query_ok) ==
    IF ~query_ok
    THEN [raised |-> TRUE, error |-> "DBError", messages |-> <<>>, total_messages |-> 0]
    ELSE IF ~Live(sess, sid)
    THEN [raised |-> TRUE, error |-> "ValueError", messages |-> <<>>, total_messages |-> 0]
    ELSE LET w == IF window_size = 0 THEN MemoryWindow * 2 ELSE window_size
             own == SelectSession(msgs, sid)
         IN [raised |-> FALSE, error |-> "none",
             messages |-> Reverse(Limit(OrderByDescSeq(own), w)),
             total_messages |-> Len(own)]

\* (a variant without the "already ended" check)
EndSession_NoEndedCheck(sess, sid, summary, commit_ok) ==
    IF ~Live(sess, sid)
    THEN [raised |-> TRUE, error |-> "ValueError", sessions |-> sess]
    ELSE IF ~commit_ok
    THEN [raised |-> TRUE, error |-> "DBError", sessions |-> sess]
    ELSE [raised |-> FALSE, error |-> "none",
          sessions |-> [sess EXCEPT ![sid].ended_at = TRUE,
                                    ![sid].summary =
                                        IF summary # "" THEN summary ELSE @]]

\* (a variant whose update is not limited to the session found)
EndSession_NoFilter(sess, sid, summary, commit_ok) ==
    IF ~Live(sess, sid)
    THEN [raised |-> TRUE, error |-> "ValueError", sessions |-> sess]
    ELSE IF sess[sid].ended_at
    THEN [raised |-> TRUE, error |-> "ValueError", sessions |-> sess]
    ELSE IF ~commit_ok
    THEN [raised |-> TRUE, error |-> "DBError", sessions |-> sess]
    ELSE [raised |-> FALSE, error |-> "none",
          sessions |-> [i \in SessionIds |->
                           IF Live(sess, i)
                           THEN [sess[i] EXCEPT !.ended_at = TRUE,
                                                !.summary = IF summary # "" THEN summary
                                                            ELSE @]
                           ELSE sess[i]]]

EndSession(sess, sid, summary, commit_ok) ==
    IF ~Live(sess, sid)
    THEN [raised |-> TRUE, error |-> "ValueError", sessions |-> sess]
    ELSE IF sess[sid].ended_at
    THEN [raised |-> TRUE, error |-> "ValueError", sessions |-> sess]
    ELSE IF ~commit_ok
    THEN [raised |-> TRUE, error |-> "DBError", sessions |-> sess]
    ELSE [raised |-> FALSE, error |-> "none",
          sessions |-> [sess EXCEPT ![sid].ended_at = TRUE,
                                    ![sid].summary =
                                        IF summary # "" THEN summary ELSE @]]

(* ---------------------- /conversations endpoints ----------------------- *)
ApiContents == {[kind |-> "api", id |-> "c1"]}
ApiModes == {"wisdom"}
ApiEmotionData == {Null, [present |-> TRUE, label |-> "joy", confidence |-> One + 5000,
                          emoji |-> "joy", color |-> "#FEF3C7"]}
ApiSummaries == {"", "summary"}
ApiWindows == {0} \cup (1..MaxMessages)
\* the caller and the parameters of the request that was answered
NoApiRequest == [user |-> "", window_size |-> 0, summary |-> ""]
NoResponse == [op |-> "none", status |-> 0, session_id |-> NoId,
               messages |-> <<>>, total_messages |-> 0, request |-> NoApiRequest]

Response(op, status, sid) == [NoResponse EXCEPT !.op = op, !.status = status,
                                               !.session_id = sid]

To(resp, u, window_size, summary) ==
    [resp EXCEPT !.request = [user |-> u, window_size |-> window_size,
                              summary |-> summary]]

\* (a variant that only checks that the session exists)
VerifySessionOwnership_AnyUser(sess, sid, user) ==
    IF ~Live(sess, sid) THEN 404
    ELSE 200

\* verify_session_ownership: the HTTP status it raises, or 200
VerifySessionOwnership(sess, sid, user) ==
    IF ~Live(sess, sid) THEN 404
    ELSE IF sess[sid].user_id # user THEN 403
    ELSE 200

\* get_current_user: the row of the caller is created on first login
Login(u) ==
    /\ u \notin users
    /\ users' = users \cup {u}
    /\ UNCHANGED <<sessions, messages, emotion_logs, api, am, chat, chats>>

ApiCreateSession(u, mode, commit_ok) ==
    /\ u \in users
    /\ FreshSessionIds(sessions) # {}
    /\ LET r == CreateSession(users, sessions, u, mode, commit_ok) IN
       /\ sessions' = r.sessions
       /\ api' = To(Response("create_session",
                             IF ~r.raised THEN 201
                             ELSE IF r.error = "ValueError" THEN 400 ELSE 500,
                             r.id), u, 0, "")
    /\ UNCHANGED <<users, messages, emotion_logs, am, chat, chats>>

\* the except clauses of the endpoint: ValueError -> 400, anything else,
\* the HTTPException of verify_session_ownership included, -> 500
ApiAddMessageB(bound, u, sid, role, content, emotion_data, commit_ok) ==
    /\ u \in users
    /\ Len(messages) < bound
    /\ LET own == VerifySessionOwnership(sessions, sid, u)
           r == AddMessage(sessions, messages, sid, RoleEnum(role), content,
                           emotion_data, "", commit_ok)
       IN IF own # 200
          THEN /\ api' = To(Response("add_message", 500, sid), u, 0, "")
               /\ UNCHANGED <<sessions, messages>>
          ELSE /\ sessions' = r.sessions
               /\ messages' = r.messages
               /\ api' = To(Response("add_message",
                                     IF ~r.raised THEN 201
                                     ELSE IF r.error = "ValueError" THEN 400 ELSE 500,
                                     sid), u, 0, "")
    /\ UNCHANGED <<users, emotion_logs, am, chat, chats>>

ApiAddMessage(u, sid, role, content, emotion_data, commit_ok) ==
    ApiAddMessageB(MaxMessages, u, sid, role, content, emotion_data, commit_ok)

ApiGetContext(u, sid, window_size, query_ok) ==
    /\ u \in users
    /\ LET own == VerifySessionOwnership(sessions, sid, u)
           r == GetContext(sessions, messages, sid, window_size, query_ok)
       IN IF own # 200
          THEN api' = To(Response("get_context", 500, sid), u, window_size, "")
          ELSE api' = To([op |-> "get_context",
                          status |-> IF ~r.raised THEN 200
                                     ELSE IF r.error = "ValueError" THEN 404 ELSE 500,
                          session_id |-> sid,
                          messages |-> r.messages,
                          total_messages |-> r.total_messages,
                          request |-> NoApiRequest], u, window_size, "")
    /\ UNCHANGED <<users, sessions, messages, emotion_logs, am, chat, chats>>

ApiEndSession(u, sid, summary, commit_ok) ==
    /\ u \in users
    /\ LET own == VerifySessionOwnership(sessions, sid, u)
           r == EndSession(sessions, sid, summary, commit_ok)
       IN IF own # 200
          THEN /\ api' = To(Response("end_session", 500, sid), u, 0, summary)
               /\ UNCHANGED sessions
          ELSE /\ sessions' = r.sessions
               /\ api' = To(Response("end_session",
                                     IF ~r.raised THEN 200
                                     ELSE IF r.error = "ValueError" THEN 400 ELSE 500,
                                     sid), u, 0, summary)
    /\ UNCHANGED <<users, messages, emotion_logs, am, chat, chats>>

(* --------------------------- specification ----------------------------- *)
\* what each collaborator did for the request in progress
NoCalls == [classifier |-> "none", retriever |-> "none", session_store |-> "none",
            generator |-> "none", fallback |-> "none", fallback_args |-> Null,
            user_write |-> "none", assistant_write |-> "none", mood_log |-> "none"]

NoRequest == [user |-> "", user_input |-> [kind |-> "input", len |-> 0],
              session_id |-> NoId, interaction_mode |-> ""]

NewChat == [pc |-> "idle", request |-> NoRequest, fallback_used |-> FALSE,
            emotion |-> Null, verses |-> <<>>, session_id |-> NoId,
            conversation_history |-> <<>>, reflection_text |-> <<>>,
            calls |-> NoCalls, status |-> 0, detail |-> <<>>, response |-> Null]

IdleCall == [pc |-> "idle"]
Workers == {"w1", "w2"}

Init ==
    /\ users = {}
    /\ sessions = [i \in SessionIds |-> FreeSession]
    /\ messages = <<>>
    /\ emotion_logs = <<>>
    /\ api = NoResponse
    /\ am = [w \in Workers |-> IdleCall]
    /\ chat = NewChat
    /\ chats = 0

RequestIds == SessionIds \cup {UnknownId}

Next ==
    \/ \E u \in Users : Login(u)
    \/ \E u \in Users, mode \in ApiModes, ok \in BOOLEAN :
          ApiCreateSession(u, mode, ok)
    \/ \E u \in Users, sid \in RequestIds, role \in MessageRole,
          content \in ApiContents, e \in ApiEmotionData, ok \in BOOLEAN :
          ApiAddMessage(u, sid, role, content, e, ok)
    \/ \E u \in Users, sid \in RequestIds, w \in ApiWindows, ok \in BOOLEAN :
          ApiGetContext(u, sid, w, ok)
    \/ \E u \in Users, sid \in RequestIds, s \in ApiSummaries, ok \in BOOLEAN :
          ApiEndSession(u, sid, s, ok)

Spec == Init /\ [][Next]_vars

(* -------- add_message as it runs when two requests overlap ------------- *)
\* Each request has its own database session.  The three steps are the
\* three round trips of add_message: the session query, the last-message
\* query, and the commit that flushes the INSERT together with the UPDATE
\* of message_count computed from the row read in the first step.
InFlight == {w \in Workers : am[w].pc \in {"session_read", "last_read"}}

AmQuerySession(w, sid, role, content) ==
    /\ am[w].pc = "idle"
    /\ Len(messages) + Cardinality(InFlight) < MaxMessages
    /\ am' = [am EXCEPT ![w] =
                IF Live(sessions, sid)
                THEN [pc |-> "session_read", session_id |-> sid, role |-> role,
                      content |-> content,
                      read_count |-> sessions[sid].message_count]
                ELSE [pc |-> "raised", session_id |-> sid, error |-> "ValueError"]]
    /\ UNCHANGED <<users, sessions, messages, emotion_logs, api, chat, chats>>

AmQueryLast(w) ==
    /\ am[w].pc = "session_read"
    /\ am' = [am EXCEPT ![w] =
                [pc |-> "last_read", session_id |-> am[w].session_id,
                 role |-> am[w].role, content |-> am[w].content,
                 read_count |-> am[w].read_count,
                 sequence_number |-> NextSequenceNumber(messages, am[w].session_id)]]
    /\ UNCHANGED <<users, sessions, messages, emotion_logs, api, chat, chats>>

AmCommit(w, commit_ok) ==
    /\ am[w].pc = "last_read"
    /\ IF commit_ok
       THEN LET c == am[w]
                m == NewMessage(c.session_id, RoleEnum(c.role), c.content, Null, "",
                                c.sequence_number)
                st == CommitMessage(sessions, messages, c.session_id, m, c.read_count)
            IN /\ sessions' = st.sessions
               /\ messages' = st.messages
               /\ am' = [am EXCEPT ![w] =
                           [pc |-> "returned", session_id |-> c.session_id,
                            sequence_number |-> c.sequence_number]]
       ELSE /\ am' = [am EXCEPT ![w] =
                        [pc |-> "raised", session_id |-> am[w].session_id,
                         error |-> "DBError"]]
            /\ UNCHANGED <<sessions, messages>>
    /\ UNCHANGED <<users, emotion_logs, api, chat, chats>>

\* the request is answered and the worker takes the next one
AmDone(w) ==
    /\ am[w].pc \in {"returned", "raised"}
    /\ am' = [am EXCEPT ![w] = IdleCall]
    /\ UNCHANGED <<users, sessions, messages, emotion_logs, api, chat, chats>>

NextConc ==
    \/ \E u \in Users : Login(u)
    \/ \E u \in Users, mode \in ApiModes, ok \in BOOLEAN :
          ApiCreateSession(u, mode, ok)
    \/ \E w \in Workers, sid \in RequestIds, role \in MessageRole,
          content \in ApiContents : AmQuerySession(w, sid, role, content)
    \/ \E w \in Workers : AmQueryLast(w)
    \/ \E w \in Workers, ok \in BOOLEAN : AmCommit(w, ok)
    \/ \E w \in Workers : AmDone(w)
    \/ \E u \in Users, sid \in SessionIds, w \in {1, MaxMessages} :
          ApiGetContext(u, sid, w, TRUE)

SpecConc == Init /\ [][NextConc]_vars

(* ------------- long conversations read through a window ---------------- *)
WindowMaxMessages == 12
WindowSizes == {0, 1, 2, MemoryWindow * 2, MemoryWindow * 2 + 1}

NextWindow ==
    \/ Login("u1")
    \/ ApiCreateSession("u1", "wisdom", TRUE)
    \/ \E sid \in SessionIds, content \in ApiContents :
          ApiAddMessageB(WindowMaxMessages, "u1", sid, "user", content, Null, TRUE)
    \/ \E sid \in SessionIds, w \in WindowSizes : ApiGetContext("u1", sid, w, TRUE)

SpecWindow == Init /\ [][NextWindow]_vars

(* ------------------- EmotionDetectionService --------------------------- *)
EmotionEmojiMap ==
    [l \in {"joy", "admiration", "approval", "gratitude", "love", "optimism",
            "caring", "excitement", "amusement", "pride", "relief", "desire",
            "realization", "curiosity", "neutral", "sadness", "disappointment",
            "grief", "remorse", "embarrassment", "anger", "annoyance",
            "disapproval", "disgust", "fear", "nervousness", "confusion",
            "surprise"} |->
       CASE l \in {"joy", "optimism"} ->
                [emoji |-> "smiling", color |-> IF l = "joy" THEN "#FEF3C7" ELSE "#D1FAE5"]
         [] l = "admiration" -> [emoji |-> "star-struck", color |-> "#FEF3C7"]
         [] l = "approval" -> [emoji |-> "thumbs-up", color |-> "#D1FAE5"]
         [] l = "gratitude" -> [emoji |-> "folded-hands", color |-> "#FEF3C7"]
         [] l = "love" -> [emoji |-> "heart", color |-> "#FECACA"]
         [] l = "caring" -> [emoji |-> "hugging", color |-> "#D1FAE5"]
         [] l = "excitement" -> [emoji |-> "party", color |-> "#FEF3C7"]
         [] l = "amusement" -> [emoji |-> "grinning", color |-> "#FEF3C7"]
         [] l = "pride" -> [emoji |-> "relieved", color |-> "#FEF3C7"]
         [] l = "relief" -> [emoji |-> "relieved", color |-> "#D1FAE5"]
         [] l \in {"desire", "curiosity"} -> [emoji |-> "thinking", color |-> "#E0E7FF"]
         [] l = "realization" -> [emoji |-> "bulb", color |-> "#FEF3C7"]
         [] l = "neutral" -> [emoji |-> "neutral-face", color |-> "#F3F4F6"]
         [] l = "sadness" -> [emoji |-> "crying", color |-> "#DBEAFE"]
         [] l = "disappointment" -> [emoji |-> "disappointed", color |-> "#DBEAFE"]
         [] l = "grief" -> [emoji |-> "sobbing", color |-> "#DBEAFE"]
         [] l = "remorse" -> [emoji |-> "pensive", color |-> "#DBEAFE"]
         [] l = "embarrassment" -> [emoji |-> "flushed", color |-> "#FEE2E2"]
         [] l = "anger" -> [emoji |-> "angry", color |-> "#FEE2E2"]
         [] l = "annoyance" -> [emoji |-> "unamused", color |-> "#FEE2E2"]
         [] l = "disapproval" -> [emoji |-> "thumbs-down", color |-> "#FEE2E2"]
         [] l = "disgust" -> [emoji |-> "nauseated", color |-> "#FEE2E2"]
         [] l = "fear" -> [emoji |-> "anxious", color |-> "#EDE9FE"]
         [] l = "nervousness" -> [emoji |-> "anxious", color |-> "#E0E7FF"]
         [] l = "confusion" -> [emoji |-> "confused", color |-> "#F3F4F6"]
         [] l = "surprise" -> [emoji |-> "astonished", color |-> "#E0E7FF"]]

EmotionMeta(label) ==
    IF label \in DOMAIN EmotionEmojiMap THEN EmotionEmojiMap[label]
    ELSE [emoji |-> "neutral-face", color |-> "#F3F4F6"]

NeutralEmotion == [label |-> "neutral", confidence |-> NeutralConfidence,
                   emoji |-> "neutral-face", color |-> "#F3F4F6"]

\* round(score, 3): scores are in 1/10000, the result is a multiple of 10
Round3(score) ==
    LET q == score \div 10
        r == score % 10
    IN IF r > 5 \/ (r = 5 /\ q % 2 = 1) THEN (q + 1) * 10 ELSE q * 10

RECURSIVE FilterByThreshold(_, _)
FilterByThreshold(results, threshold) ==
    IF results = <<>> THEN <<>>
    ELSE LET r == Head(results)
             rest == FilterByThreshold(Tail(results), threshold)
         IN IF r.score >= threshold
            THEN <<[label |-> r.label, confidence |-> Round3(r.score),
                    emoji |-> EmotionMeta(r.label).emoji,
                    color |-> EmotionMeta(r.label).color]>> \o rest
            ELSE rest

\* list.sort(key=confidence, reverse=True): stable, equal keys keep their order
RECURSIVE InsertByConfidence(_, _)
InsertByConfidence(e, sorted) ==
    IF sorted = <<>> THEN <<e>>
    ELSE IF Head(sorted).confidence >= e.confidence
         THEN <<Head(sorted)>> \o InsertByConfidence(e, Tail(sorted))
         ELSE <<e>> \o sorted

RECURSIVE SortByConfidence(_)
SortByConfidence(es) ==
    IF es = <<>> THEN <<>>
    ELSE InsertByConfidence(Head(es), SortByConfidence(Tail(es)))

\* classifier: [raised, results]; the except clause absorbs a raise
\* (a variant that returns the filtered list as the classifier ordered it)
DetectEmotion_Unsorted(classifier, threshold) ==
    IF classifier.raised THEN <<NeutralEmotion>>
    ELSE LET emotions == FilterByThreshold(classifier.results, threshold)
         IN IF emotions = <<>> THEN <<NeutralEmotion>> ELSE emotions

DetectEmotion(classifier, threshold) ==
    IF classifier.raised THEN <<NeutralEmotion>>
    ELSE LET emotions == SortByConfidence(Reverse(
                            FilterByThreshold(classifier.results, threshold)))
         IN IF emotions = <<>> THEN <<NeutralEmotion>> ELSE emotions

GetDominantEmotion(emotions) ==
    IF emotions = <<>> THEN NeutralEmotion ELSE emotions[1]

\* EmotionData(**d): pydantic accepts a confidence in [0, 1] only
EmotionDataValid(d) == d.confidence >= 0 /\ d.confidence <= One

\* the service called with any threshold in [0, 1] on any classifier output
MaxResults == 3
EmotionLabels == {"joy", "sadness", "not-in-the-map"}
EmotionScores == {0, Threshold - 1, Threshold, 4995, 5005, One}
EmotionThresholds == {0, Threshold, 5000, One}
ClassifierBehaviours ==
    {[raised |-> TRUE, results |-> <<>>]} \cup
    {[raised |-> FALSE, results |-> l] :
        l \in UNION {[1..n -> [label : EmotionLabels, score : EmotionScores]] :
                        n \in 0..MaxResults}}

DetectEmotionCall(classifier, threshold) ==
    /\ api.op # "detect_emotion"
    /\ LET emotions == DetectEmotion(classifier, threshold) IN
       api' = [op |-> "detect_emotion", classifier |-> classifier,
               threshold |-> threshold, emotions |-> emotions,
               dominant |-> GetDominantEmotion(emotions)]
    /\ UNCHANGED <<users, sessions, messages, emotion_logs, am, chat, chats>>

\* the caller has consumed the result
DetectEmotionReturn ==
    /\ api.op = "detect_emotion"
    /\ api' = NoResponse
    /\ UNCHANGED <<users, sessions, messages, emotion_logs, am, chat, chats>>

NextEmotion ==
    \/ /\ api.op # "detect_emotion"
       /\ \E classifier \in ClassifierBehaviours, threshold \in EmotionThresholds :
             DetectEmotionCall(classifier, threshold)
    \/ DetectEmotionReturn

SpecEmotion == Init /\ [][NextEmotion]_vars

(* ----------------------- VectorSearchService --------------------------- *)
\* an item of the index: its metadata and its cosine distance to the query;
\* str_fields is false when a text column holds a non-string (an empty CSV
\* cell read by pandas), which VerseSearchResult rejects
Verse(id, chapter, verse, distance, str_fields) ==
    [id |-> id, chapter |-> chapter, verse |-> verse, distance |-> distance,
     str_fields |-> str_fields]

RECURSIVE ToVerseDicts(_)
ToVerseDicts(items) ==
    IF items = <<>> THEN <<>>
    ELSE LET m == Head(items) IN
         <<[id |-> m.id, chapter |-> m.chapter, verse |-> m.verse,
            str_fields |-> m.str_fields,
            similarity_score |-> One - m.distance]>> \o ToVerseDicts(Tail(items))

RECURSIVE InsertBySimilarity(_, _)
InsertBySimilarity(v, sorted) ==
    IF sorted = <<>> THEN <<v>>
    ELSE IF Head(sorted).similarity_score >= v.similarity_score
         THEN <<Head(sorted)>> \o InsertBySimilarity(v, Tail(sorted))
         ELSE <<v>> \o sorted

\* _rerank_by_emotion: sorted(..., key=similarity_score, reverse=True)
RECURSIVE RerankByEmotion(_, _)
RerankByEmotion(verses, emotion) ==
    IF verses = <<>> THEN <<>>
    ELSE InsertBySimilarity(Head(Reverse(verses)),
                            RerankByEmotion(Reverse(Tail(Reverse(verses))), emotion))

\* index: [raised, ranked]: the items of the collection nearest first
SearchVerses(index, emotion, top_k) ==
    IF index.raised THEN <<>>
    ELSE LET n_results == IF emotion # "" THEN top_k * 2 ELSE top_k
             verses == ToVerseDicts(Limit(index.ranked, n_results))
             ranked == IF emotion # "" THEN RerankByEmotion(verses, emotion)
                       ELSE verses
         IN Limit(ranked, top_k)

\* [VerseSearchResult(**verse) for verse in verses_data]
VersesConvertible(verses_data) ==
    \A i \in 1..Len(verses_data) : verses_data[i].str_fields

DefaultVerse == [id |-> "BG2.47", chapter |-> 2, verse |-> 47, str_fields |-> TRUE,
                 similarity_score |-> DefaultSimilarity]

RECURSIVE VerseIds(_)
VerseIds(verses) ==
    IF verses = <<>> THEN <<>> ELSE <<Head(verses).id>> \o VerseIds(Tail(verses))

(* -------------------- ReflectionGenerationService ---------------------- *)
\* a text is a sequence of characters; " " is whitespace
RECURSIVE LStrip(_)
LStrip(t) == IF t # <<>> /\ Head(t) = " " THEN LStrip(Tail(t)) ELSE t

Strip(t) == Reverse(LStrip(Reverse(LStrip(t))))

\* llm: [raised, text]: what model.generate_content does for the prompt
GenerateReflection(llm, verses, interaction_mode) ==
    IF interaction_mode \notin InteractionMode \/ verses = <<>>
    THEN [raised |-> TRUE, error |-> "ValueError", text |-> <<>>]
    ELSE IF llm.raised \/ llm.text = <<>>
    THEN [raised |-> TRUE, error |-> "Exception", text |-> <<>>]
    ELSE [raised |-> FALSE, error |-> "none", text |-> Strip(llm.text)]

\* the template of generate_fallback_reflection: it reads verses[0] with the
\* key 'engMeaning', which the verse dictionaries do not have
FallbackReflection(emotion_data, verses) ==
    IF verses = <<>> THEN <<"seeking guidance">>
    ELSE <<"I sense you're feeling", emotion_data.label, "Verse",
           verses[1].chapter, verses[1].verse, "Sanskrit", verses[1].id,
           "English", "">>

\* the f-string of chat, lines 293-301
LastResortReflection(emotion, verses) ==
    <<"I understand you're experiencing", emotion.label, "Verse",
      verses[1].chapter, verses[1].verse, "Sanskrit", verses[1].id,
      "English", verses[1].id>>

(* --------------------------- LoggingService ---------------------------- *)
\* emotion_data.get('dominant', {}) and the defaults of the .get calls
DominantOf(emotion_data) ==
    IF "dominant" \in DOMAIN emotion_data THEN emotion_data.dominant
    ELSE [label |-> "neutral", confidence |-> 0, emoji |-> "neutral-face",
          color |-> "#F3F4F6"]

\* (a variant for a table without the constraint valid_emotion_confidence)
LogInteraction_NoConstraint(usrs, sess, logs, user_id, user_input, emotion_data, verse_ids, session_id, commit_ok) ==
    LET d == DominantOf(emotion_data)
        row == [user_id |-> user_id, user_input |-> user_input,
                dominant_emotion |-> d.label, emotion_confidence |-> d.confidence,
                emotion_emoji |-> d.emoji, emotion_color |-> d.color,
                verse_ids |-> verse_ids, session_id |-> session_id]
    IN IF \/ user_id \notin usrs
          \/ (session_id # NoId /\ ~Live(sess, session_id))
          \/ ~commit_ok
       THEN [raised |-> TRUE, emotion_logs |-> logs]
       ELSE [raised |-> FALSE, emotion_logs |-> Append(logs, row)]

LogInteraction(usrs, sess, logs, user_id, user_input, emotion_data, verse_ids, session_id, commit_ok) ==
    LET d == DominantOf(emotion_data)
        row == [user_id |-> user_id, user_input |-> user_input,
                dominant_emotion |-> d.label, emotion_confidence |-> d.confidence,
                emotion_emoji |-> d.emoji, emotion_color |-> d.color,
                verse_ids |-> verse_ids, session_id |-> session_id]
    IN IF \/ user_id \notin usrs
          \/ (session_id # NoId /\ ~Live(sess, session_id))
          \/ d.confidence < 0 \/ d.confidence > One
          \/ ~commit_ok
       THEN [raised |-> TRUE, emotion_logs |-> logs]
       ELSE [raised |-> FALSE, emotion_logs |-> Append(logs, row)]

(* ------------------------------ /chat ---------------------------------- *)
UserInputs == {[kind |-> "input", len |-> n] : n \in {0, 1, MaxInputLen, MaxInputLen + 1}}
RequestModes == InteractionMode \cup {"invalid"}

ClassifierOutcomes ==
    {[raised |-> TRUE, results |-> <<>>],
     [raised |-> FALSE, results |-> <<[label |-> "sadness", score |-> Threshold - 1]>>],
     [raised |-> FALSE, results |-> <<[label |-> "joy", score |-> 9004],
                                      [label |-> "sadness", score |-> 1000]>>],
     [raised |-> FALSE, results |-> <<[label |-> "sadness", score |-> Threshold],
                                      [label |-> "joy", score |-> 9004]>>]}

IndexOutcomes ==
    {[raised |-> TRUE, ranked |-> <<>>],
     [raised |-> FALSE, ranked |-> <<>>],
     [raised |-> FALSE, ranked |-> <<Verse("BG1.1", 1, 1, 2500, FALSE)>>],
     [raised |-> FALSE, ranked |-> <<Verse("BG6.5", 6, 5, 2000, TRUE)>>],
     [raised |-> FALSE, ranked |-> <<Verse("BG6.5", 6, 5, 2000, TRUE),
                                     Verse("BG2.14", 2, 14, 3000, TRUE),
                                     Verse("BG18.66", 18, 66, 3000, TRUE),
                                     Verse("BG3.30", 3, 30, 4500, TRUE)>>]}

LlmOutcomes ==
    {[raised |-> TRUE, text |-> <<>>],
     [raised |-> FALSE, text |-> <<>>],
     [raised |-> FALSE, text |-> <<" ">>],
     [raised |-> FALSE, text |-> <<" ", "x", " ">>]}

EmotionDict(emotion) == [label |-> emotion.label, confidence |-> emotion.confidence,
                         emoji |-> emotion.emoji, color |-> emotion.color]

\* request validation: the pydantic Field bounds of ChatRequest (422), then
\* the mode check of the handler (400)
ValidModes == <<"socratic", "wisdom", "story">>

\* (a variant without the mode check of the handler)
ChatReceive_NoModeCheck(u, user_input, sid, mode) ==
    /\ chat.pc = "idle"
    /\ chats < MaxChats
    /\ u \in users
    /\ sid \in {NoId, UnknownId} \/ Live(sessions, sid)
    /\ sid = NoId => FreshSessionIds(sessions) # {}
    /\ chats' = chats + 1
    /\ LET req == [user |-> u, user_input |-> user_input, session_id |-> sid,
                   interaction_mode |-> mode]
       IN chat' =
            IF user_input.len < 1 \/ user_input.len > MaxInputLen
            THEN [NewChat EXCEPT !.pc = "rejected", !.request = req, !.status = 422]
            ELSE [NewChat EXCEPT !.pc = "emotion", !.request = req]
    /\ UNCHANGED <<users, sessions, messages, emotion_logs, api, am>>

ChatReceive(u, user_input, sid, mode) ==
    /\ chat.pc = "idle"
    /\ chats < MaxChats
    /\ u \in users
    /\ sid \in {NoId, UnknownId} \/ Live(sessions, sid)
    /\ sid = NoId => FreshSessionIds(sessions) # {}
    /\ chats' = chats + 1
    /\ LET req == [user |-> u, user_input |-> user_input, session_id |-> sid,
                   interaction_mode |-> mode]
       IN chat' =
            IF user_input.len < 1 \/ user_input.len > MaxInputLen
            THEN [NewChat EXCEPT !.pc = "rejected", !.request = req, !.status = 422]
            ELSE IF mode \notin {ValidModes[i] : i \in DOMAIN ValidModes}
            THEN [NewChat EXCEPT !.pc = "rejected", !.request = req, !.status = 400,
                                 !.detail = <<"Invalid interaction mode", mode,
                                              "Must be one of">> \o ValidModes]
            ELSE [NewChat EXCEPT !.pc = "emotion", !.request = req]
    /\ UNCHANGED <<users, sessions, messages, emotion_logs, api, am>>

\* Step 1
ChatDetectEmotion(classifier) ==
    /\ chat.pc = "emotion"
    /\ LET emotions_data == DetectEmotion(classifier, Threshold)
           dominant == GetDominantEmotion(emotions_data)
           how == IF classifier.raised THEN "raised"
                  ELSE IF FilterByThreshold(classifier.results, Threshold) = <<>>
                  THEN "neutral" ELSE "ok"
       IN chat' =
            IF EmotionDataValid(dominant)
            THEN [chat EXCEPT !.pc = "search", !.emotion = dominant,
                              !.calls.classifier = how]
            ELSE [chat EXCEPT !.pc = "search", !.emotion = NeutralEmotion,
                              !.fallback_used = TRUE, !.calls.classifier = "raised"]
    /\ UNCHANGED <<users, sessions, messages, emotion_logs, api, am, chats>>

\* Step 2, the try/except around the search: an empty or unconvertible
\* result raises and the except clause substitutes the default verse
\* (a variant whose except branch installs the default verse but leaves the
\* flag alone)
VersesOrDefault_NoFlag(verses_data) ==
    IF VersesConvertible(verses_data) /\ verses_data # <<>>
    THEN [verses |-> verses_data, fallback |-> FALSE]
    ELSE [verses |-> <<DefaultVerse>>, fallback |-> FALSE]

VersesOrDefault(verses_data) ==
    IF VersesConvertible(verses_data) /\ verses_data # <<>>
    THEN [verses |-> verses_data, fallback |-> FALSE]
    ELSE [verses |-> <<DefaultVerse>>, fallback |-> TRUE]

ChatSearchVerses(index) ==
    /\ chat.pc = "search"
    /\ LET verses_data == SearchVerses(index, chat.emotion.label, TopK)
           how == IF index.raised THEN "raised"
                  ELSE IF verses_data = <<>> THEN "empty"
                  ELSE IF ~VersesConvertible(verses_data) THEN "unconvertible"
                  ELSE "ok"
           v == VersesOrDefault(verses_data)
       IN chat' = [chat EXCEPT !.pc = "session", !.verses = v.verses,
                               !.fallback_used = @ \/ v.fallback,
                               !.calls.retriever = how]
    /\ UNCHANGED <<users, sessions, messages, emotion_logs, api, am, chats>>

RECURSIVE HistoryOf(_)
HistoryOf(msgs) ==
    IF msgs = <<>> THEN <<>>
    ELSE <<[role |-> Head(msgs).role, content |-> Head(msgs).content]>>
         \o HistoryOf(Tail(msgs))

\* Step 3
ChatResolveSession(db_ok) ==
    /\ chat.pc = "session"
    /\ IF chat.request.session_id # NoId
       THEN LET context == GetContext(sessions, messages, chat.request.session_id,
                                      DefaultWindow, db_ok)
            IN /\ chat' =
                    IF ~context.raised
                    THEN [chat EXCEPT !.pc = "generate",
                                      !.conversation_history = HistoryOf(context.messages),
                                      !.session_id = chat.request.session_id,
                                      !.calls.session_store = "ok"]
                    ELSE [chat EXCEPT !.pc = "generate",
                                      !.conversation_history = <<>>,
                                      !.session_id = chat.request.session_id,
                                      !.calls.session_store = "raised"]
               /\ UNCHANGED sessions
       ELSE LET session == CreateSession(users, sessions, chat.request.user,
                                         chat.request.interaction_mode, db_ok)
            IN /\ sessions' = session.sessions
               /\ chat' =
                    IF ~session.raised
                    THEN [chat EXCEPT !.pc = "generate",
                                      !.conversation_history = <<>>,
                                      !.session_id = session.id,
                                      !.calls.session_store = "ok"]
                    ELSE [chat EXCEPT !.pc = "generate",
                                      !.conversation_history = <<>>,
                                      !.session_id = ThrowawayId,
                                      !.fallback_used = TRUE,
                                      !.calls.session_store = "raised"]
    /\ UNCHANGED <<users, messages, emotion_logs, api, am, chats>>

\* Step 4, the nested try/except: generate, else the template of the
\* service, else the f-string of the handler
\* (a variant that hands the default verse to the fallback template and does
\* not flag the downgrade)
Reflect_SilentFallback(llm, fallback_ok, user_input, emotion, verses, interaction_mode) ==
    LET g == GenerateReflection(llm, verses, interaction_mode)
        args == [present |-> TRUE, user_input |-> user_input,
                 emotion_data |-> EmotionDict(emotion), verses |-> <<DefaultVerse>>]
    IN IF ~g.raised
       THEN [reflection_text |-> g.text, fallback |-> FALSE,
             generator |-> "ok", fallback_call |-> "none", fallback_args |-> Null]
       ELSE [reflection_text |-> FallbackReflection(args.emotion_data, args.verses),
             fallback |-> FALSE,
             generator |-> "raised", fallback_call |-> "ok", fallback_args |-> args]

Reflect(llm, fallback_ok, user_input, emotion, verses, interaction_mode) ==
    LET g == GenerateReflection(llm, verses, interaction_mode)
        args == [present |-> TRUE, user_input |-> user_input,
                 emotion_data |-> EmotionDict(emotion), verses |-> verses]
    IN IF ~g.raised
       THEN [reflection_text |-> g.text, fallback |-> FALSE,
             generator |-> "ok", fallback_call |-> "none", fallback_args |-> Null]
       ELSE IF fallback_ok
       THEN [reflection_text |-> FallbackReflection(args.emotion_data, args.verses),
             fallback |-> TRUE,
             generator |-> "raised", fallback_call |-> "ok", fallback_args |-> args]
       ELSE [reflection_text |-> LastResortReflection(emotion, verses),
             fallback |-> TRUE,
             generator |-> "raised", fallback_call |-> "raised", fallback_args |-> args]

ChatGenerate(llm, fallback_ok) ==
    /\ chat.pc = "generate"
    /\ LET r == Reflect(llm, fallback_ok, chat.request.user_input, chat.emotion,
                        chat.verses, chat.request.interaction_mode)
       IN chat' = [chat EXCEPT !.pc = "store_user",
                               !.reflection_text = r.reflection_text,
                               !.fallback_used = @ \/ r.fallback,
                               !.calls.generator = r.generator,
                               !.calls.fallback = r.fallback_call,
                               !.calls.fallback_args = r.fallback_args]
    /\ UNCHANGED <<users, sessions, messages, emotion_logs, api, am, chats>>

\* Steps 5 to 7 each catch their own exception and fall through to the next
\* (a variant in which a failed write propagates and skips the later writes)
AfterWrite_AbortOnFailure(pc, raised) ==
    IF raised THEN "respond"
    ELSE CASE pc = "store_user" -> "store_assistant"
           [] pc = "store_assistant" -> "mood_log"
           [] pc = "mood_log" -> "respond"

AfterWrite(pc, raised) ==
    CASE pc = "store_user" -> "store_assistant"
      [] pc = "store_assistant" -> "mood_log"
      [] pc = "mood_log" -> "respond"

\* Step 5: add_message(role="user", ...): the role is a plain string
ChatStoreUser(db_ok) ==
    /\ chat.pc = "store_user"
    /\ LET r == AddMessage(sessions, messages, chat.session_id, RoleStr("user"),
                           chat.request.user_input,
                           [present |-> TRUE] @@ EmotionDict(chat.emotion), "", db_ok)
       IN /\ sessions' = r.sessions
          /\ messages' = r.messages
          /\ chat' = [chat EXCEPT !.pc = AfterWrite(chat.pc, r.raised),
                                  !.calls.user_write =
                                      IF r.raised THEN r.error ELSE "ok"]
    /\ UNCHANGED <<users, emotion_logs, api, am, chats>>

\* Step 6: add_message(role="assistant", ..., verse_id=verses[0].id)
ChatStoreAssistant(db_ok) ==
    /\ chat.pc = "store_assistant"
    /\ LET r == AddMessage(sessions, messages, chat.session_id, RoleStr("assistant"),
                           [kind |-> "reflection", text |-> chat.reflection_text],
                           Null, chat.verses[1].id, db_ok)
       IN /\ sessions' = r.sessions
          /\ messages' = r.messages
          /\ chat' = [chat EXCEPT !.pc = AfterWrite(chat.pc, r.raised),
                                  !.calls.assistant_write =
                                      IF r.raised THEN r.error ELSE "ok"]
    /\ UNCHANGED <<users, emotion_logs, api, am, chats>>

\* Step 7
ChatLogInteraction(db_ok) ==
    /\ chat.pc = "mood_log"
    /\ LET r == LogInteraction(users, sessions, emotion_logs, chat.request.user,
                               chat.request.user_input, EmotionDict(chat.emotion),
                               VerseIds(chat.verses), chat.session_id, db_ok)
       IN /\ emotion_logs' = r.emotion_logs
          /\ chat' = [chat EXCEPT !.pc = AfterWrite(chat.pc, r.raised),
                                  !.calls.mood_log =
                                      IF r.raised THEN "raised" ELSE "ok"]
    /\ UNCHANGED <<users, sessions, messages, api, am, chats>>

\* return ChatResponse(...)
ChatRespond ==
    /\ chat.pc = "respond"
    /\ chat' = [chat EXCEPT !.pc = "done", !.status = 200,
                            !.response =
                                [present |-> TRUE,
                                 reflection |-> chat.reflection_text,
                                 emotion |-> chat.emotion,
                                 verses |-> chat.verses,
                                 session_id |-> chat.session_id,
                                 interaction_mode |-> chat.request.interaction_mode,
                                 fallback_used |-> chat.fallback_used]]
    /\ UNCHANGED <<users, sessions, messages, emotion_logs, api, am, chats>>

\* the response is sent and the next request can be taken
ChatFinish ==
    /\ chat.pc \in {"done", "rejected"}
    /\ chat' = NewChat
    /\ UNCHANGED <<users, sessions, messages, emotion_logs, api, am, chats>>

\* the store as the requests find it: sessions and messages that clients
\* created through the /conversations endpoints before the chat request
NextChat ==
    \/ \E u \in Users : chats = 0 /\ Login(u)
    \/ \E u \in Users, mode \in ApiModes :
          chats = 0 /\ ApiCreateSession(u, mode, TRUE)
    \/ \E u \in Users, sid \in SessionIds, role \in MessageRole,
          content \in ApiContents :
          chats = 0 /\ ApiAddMessageB(ChatMaxMessages, u, sid, role, content, Null, TRUE)
    \/ \E u \in Users, user_input \in UserInputs,
          sid \in SessionIds \cup {NoId, UnknownId}, mode \in RequestModes :
          ChatReceive(u, user_input, sid, mode)
    \/ \E classifier \in ClassifierOutcomes : ChatDetectEmotion(classifier)
    \/ \E index \in IndexOutcomes : ChatSearchVerses(index)
    \/ \E db_ok \in BOOLEAN : ChatResolveSession(db_ok)
    \/ \E llm \in LlmOutcomes, fallback_ok \in BOOLEAN : ChatGenerate(llm, fallback_ok)
    \/ \E db_ok \in BOOLEAN : ChatStoreUser(db_ok)
    \/ \E db_ok \in BOOLEAN : ChatStoreAssistant(db_ok)
    \/ \E db_ok \in BOOLEAN : ChatLogInteraction(db_ok)
    \/ ChatRespond
    \/ ChatFinish

SpecChat == Init /\ [][NextChat]_vars

(* ----------------------- mood analytics -------------------------------- *)
\* A stored emotion log carries log_date = the day it was written; age is the
\* number of days between log_date and the day of the analysis (0 = today).
\* The weekday of a log is determined by its age modulo 7.
MaxLogs == 3
WeekDays == 7
MonthDays == 30
QuarterDays == 90
FrequencyMin == 3
TemporalMin == 2
DiversityMin == 5
TimeRanges == {"week", "month", "quarter", "other"}
LogEmotions == {"joy", "sadness"}
LogAges == {0, 1, WeekDays, WeekDays + 1, MonthDays, MonthDays + 1}
PositiveEmotions == {"joy", "gratitude", "love", "optimism", "relief", "pride"}

RangeDays(time_range) ==
    CASE time_range = "week" -> WeekDays
      [] time_range = "month" -> MonthDays
      [] time_range = "quarter" -> QuarterDays
      [] OTHER -> MonthDays

Weekday(log) == log.age % 7

\* the logs of the user with start_date <= log_date <= end_date
RECURSIVE WindowLogs(_, _, _)
WindowLogs(logs, user_id, days) ==
    IF logs = <<>> THEN <<>>
    ELSE LET l == Head(logs)
             rest == WindowLogs(Tail(logs), user_id, days)
         IN IF l.user_id = user_id /\ l.age >= 0 /\ l.age <= days
            THEN <<l>> \o rest ELSE rest

EmotionsOf(logs) == {logs[i].dominant_emotion : i \in 1..Len(logs)}

CountOf(logs, emotion) ==
    Cardinality({i \in 1..Len(logs) : logs[i].dominant_emotion = emotion})

FirstIndex(logs, emotion) ==
    CHOOSE i \in 1..Len(logs) :
        /\ logs[i].dominant_emotion = emotion
        /\ \A j \in 1..(i - 1) : logs[j].dominant_emotion # emotion

\* max(counter.items(), key=count) and Counter.most_common(1): the highest
\* count, the emotion met first among equals
MostCommon(logs) ==
    CHOOSE e \in EmotionsOf(logs) :
        \A f \in EmotionsOf(logs) :
            \/ CountOf(logs, e) > CountOf(logs, f)
            \/ (CountOf(logs, e) = CountOf(logs, f)
                /\ FirstIndex(logs, e) <= FirstIndex(logs, f))

\* the while loop of get_emotion_stats: the buckets from current_date up to
\* end_date, dates counted in days from start_date
\* (a variant whose week_end is not limited by end_date)
RECURSIVE WeekBounds_NoClamp(_, _)
WeekBounds_NoClamp(current_date, end_date) ==
    IF current_date > end_date THEN <<>>
    ELSE <<[week_start |-> current_date, week_end |-> current_date + 6]>>
             \o WeekBounds_NoClamp(current_date + 7, end_date)

RECURSIVE WeekBounds(_, _)
WeekBounds(current_date, end_date) ==
    IF current_date > end_date THEN <<>>
    ELSE LET week_end == IF current_date + 6 < end_date THEN current_date + 6
                         ELSE end_date
         IN <<[week_start |-> current_date, week_end |-> week_end]>>
                \o WeekBounds(week_end + 1, end_date)

\* the logs with current_date <= log_date <= week_end
RECURSIVE WeekLogs(_, _, _)
WeekLogs(logs, days, week) ==
    IF logs = <<>> THEN <<>>
    ELSE LET l == Head(logs)
             rest == WeekLogs(Tail(logs), days, week)
         IN IF week.week_start <= days - l.age /\ days - l.age <= week.week_end
            THEN <<l>> \o rest ELSE rest

\* Counter(log.dominant_emotion for log in logs)
Counter(logs) == [e \in EmotionsOf(logs) |-> CountOf(logs, e)]

RECURSIVE DayLogs(_, _)
DayLogs(logs, day) ==
    IF logs = <<>> THEN <<>>
    ELSE LET rest == DayLogs(Tail(logs), day)
         IN IF Weekday(Head(logs)) = day THEN <<Head(logs)>> \o rest ELSE rest

\* (a variant that makes one entry per log instead of one per weekday)
RECURSIVE DaysInOrder_PerLog(_, _)
DaysInOrder_PerLog(logs, seen) ==
    IF logs = <<>> THEN <<>>
    ELSE <<Weekday(Head(logs))>> \o DaysInOrder_PerLog(Tail(logs), seen)

\* the weekdays in the order in which the dictionary met them
RECURSIVE DaysInOrder(_, _)
DaysInOrder(logs, seen) ==
    IF logs = <<>> THEN <<>>
    ELSE LET d == Weekday(Head(logs)) IN
         IF d \in seen THEN DaysInOrder(Tail(logs), seen)
         ELSE <<d>> \o DaysInOrder(Tail(logs), seen \cup {d})

GetEmotionStats(logs, user_id, time_range) ==
    LET days == RangeDays(time_range)
        own == WindowLogs(logs, user_id, days)
    IN IF own = <<>>
       THEN [emotion_logs |-> <<>>, emotion_counts |-> <<>>,
             total_interactions |-> 0,
             weekly_trends |-> <<>>, daily_averages |-> <<>>]
       ELSE [emotion_logs |-> own,
             emotion_counts |-> Counter(own),
             total_interactions |-> Len(own),
             weekly_trends |->
                 LET weeks == WeekBounds(0, days) IN
                 [b \in 1..Len(weeks) |->
                     LET week_logs == WeekLogs(own, days, weeks[b]) IN
                     [week_start |-> weeks[b].week_start,
                      week_end |-> weeks[b].week_end,
                      emotions |-> Counter(week_logs),
                      total_interactions |-> Len(week_logs)]],
             daily_averages |->
                 LET ds == DaysInOrder(own, {}) IN
                 [i \in 1..Len(ds) |->
                     LET on == DayLogs(own, ds[i]) IN
                     [day |-> ds[i],
                      most_common_emotion |-> MostCommon(on),
                      count |-> CountOf(on, MostCommon(on)),
                      total_interactions |-> Len(on)]]]

\* Pattern 1
\* (a variant whose threshold is the one of the weekday detector)
FrequencyFinding_Min2(stats) ==
    LET own == stats.emotion_logs IN
    IF own # <<>> /\ CountOf(own, MostCommon(own)) >= TemporalMin
    THEN <<[type |-> "frequency", emotion |-> MostCommon(own),
            count |-> CountOf(own, MostCommon(own))]>>
    ELSE <<>>

FrequencyFinding(stats) ==
    LET own == stats.emotion_logs IN
    IF own # <<>> /\ CountOf(own, MostCommon(own)) >= FrequencyMin
    THEN <<[type |-> "frequency", emotion |-> MostCommon(own),
            count |-> CountOf(own, MostCommon(own))]>>
    ELSE <<>>

\* Pattern 2
RECURSIVE TemporalFindings(_)
TemporalFindings(daily_averages) ==
    IF daily_averages = <<>> THEN <<>>
    ELSE LET data == Head(daily_averages)
             rest == TemporalFindings(Tail(daily_averages))
         IN IF data.count >= TemporalMin
            THEN <<[type |-> "temporal", day |-> data.day,
                    emotion |-> data.most_common_emotion,
                    count |-> data.count]>> \o rest
            ELSE rest

\* sum(week["emotions"].get(emotion, 0) for emotion in positive_emotions)
RECURSIVE PositiveCountOver(_, _)
PositiveCountOver(emotions, keys) ==
    IF keys = {} THEN 0
    ELSE LET emotion == CHOOSE k \in keys : TRUE IN
         (IF emotion \in DOMAIN emotions THEN emotions[emotion] ELSE 0)
             + PositiveCountOver(emotions, keys \ {emotion})

PositiveCount(week) == PositiveCountOver(week.emotions, PositiveEmotions)

\* Pattern 3
\* (a variant whose second branch has no condition on last_positive)
TrendFinding_AnyDecrease(stats) ==
    LET weeks == stats.weekly_trends IN
    IF Len(weeks) < 2 THEN <<>>
    ELSE LET first_week == weeks[1]
             last_week == weeks[Len(weeks)]
             first_positive == PositiveCount(first_week)
             last_positive == PositiveCount(last_week)
         IN IF ~(first_week.total_interactions > 0
                 /\ last_week.total_interactions > 0) THEN <<>>
            ELSE IF last_positive > first_positive
            THEN <<[type |-> "trend", trend |-> "positive_increase"]>>
            ELSE IF first_positive > last_positive
            THEN <<[type |-> "trend", trend |-> "positive_decrease"]>>
            ELSE <<>>

TrendFinding(stats) ==
    LET weeks == stats.weekly_trends IN
    IF Len(weeks) < 2 THEN <<>>
    ELSE LET first_week == weeks[1]
             last_week == weeks[Len(weeks)]
             first_positive == PositiveCount(first_week)
             last_positive == PositiveCount(last_week)
         IN IF ~(first_week.total_interactions > 0
                 /\ last_week.total_interactions > 0) THEN <<>>
            ELSE IF last_positive > first_positive
            THEN <<[type |-> "trend", trend |-> "positive_increase"]>>
            ELSE IF first_positive > last_positive /\ last_positive > 0
            THEN <<[type |-> "trend", trend |-> "positive_decrease"]>>
            ELSE <<>>

\* Pattern 4
DiversityFinding(stats) ==
    LET unique_emotions == Cardinality(EmotionsOf(stats.emotion_logs))
        found(kind) == <<[type |-> "diversity", range |-> kind,
                          unique_emotions |-> unique_emotions,
                          total_interactions |-> stats.total_interactions]>>
    IN IF stats.total_interactions < DiversityMin THEN <<>>
       ELSE IF unique_emotions >= 5 THEN found("wide")
       ELSE IF unique_emotions <= 2 THEN found("narrow")
       ELSE <<>>

IdentifyPatterns(logs, user_id, time_range) ==
    LET stats == GetEmotionStats(logs, user_id, time_range) IN
    FrequencyFinding(stats) \o TemporalFindings(stats.daily_averages)
        \o TrendFinding(stats) \o DiversityFinding(stats)

\* a log written age days before the analysis
StoredLogB(bound, u, emotion, age) ==
    /\ u \in users
    /\ api.op = "none"
    /\ Len(emotion_logs) < bound
    /\ emotion_logs' = Append(emotion_logs,
                              [user_id |-> u, dominant_emotion |-> emotion,
                               age |-> age])
    /\ UNCHANGED <<users, sessions, messages, api, am, chat, chats>>

StoredLog(u, emotion, age) == StoredLogB(MaxLogs, u, emotion, age)

\* GET /analytics/stats
GetEmotionStatsCall(u, time_range) ==
    /\ u \in users
    /\ api' = [op |-> "get_emotion_stats", user |-> u, time_range |-> time_range,
               stats |-> GetEmotionStats(emotion_logs, u, time_range)]
    /\ UNCHANGED <<users, sessions, messages, emotion_logs, am, chat, chats>>

\* GET /analytics/patterns
IdentifyPatternsCall(u, time_range) ==
    /\ u \in users
    /\ api' = [op |-> "identify_patterns", user |-> u, time_range |-> time_range,
               patterns |-> IdentifyPatterns(emotion_logs, u, time_range)]
    /\ UNCHANGED <<users, sessions, messages, emotion_logs, am, chat, chats>>

\* the response is sent and the next request can be taken
ApiReturn ==
    /\ api.op # "none"
    /\ api' = NoResponse
    /\ UNCHANGED <<users, sessions, messages, emotion_logs, am, chat, chats>>

NextPatterns ==
    \/ \E u \in Users : api.op = "none" /\ Login(u)
    \/ \E u \in Users, emotion \in LogEmotions, age \in LogAges :
          StoredLog(u, emotion, age)
    \/ /\ api.op = "none"
       /\ \E u \in Users, time_range \in TimeRanges :
             IdentifyPatternsCall(u, time_range)
    \/ /\ api.op = "none"
       /\ \E u \in Users, time_range \in TimeRanges :
             GetEmotionStatsCall(u, time_range)
    \/ ApiReturn

SpecPatterns == Init /\ [][NextPatterns]_vars

\* one user with enough logs for every detector: two weekdays, each in the
\* first and in the last bucket of the week window
FindingsMaxLogs == 5

NextFindings ==
    \/ api.op = "none" /\ Login("u1")
    \/ \E emotion \in LogEmotions, age \in {0, 1, WeekDays, WeekDays + 1} :
          StoredLogB(FindingsMaxLogs, "u1", emotion, age)
    \/ /\ api.op = "none"
       /\ \E time_range \in TimeRanges : IdentifyPatternsCall("u1", time_range)
    \/ ApiReturn

SpecFindings == Init /\ [][NextFindings]_vars

(* ----------------------- /logs endpoints ------------------------------- *)
\* Dates are days counted from an arbitrary origin.
MoodMaxLogs == 3
MaxCreatedAt == 4
MaxSpan == 365
MoodDates == 1..2
Dominant(label, confidence) ==
    [dominant |-> [label |-> label, confidence |-> confidence,
                   emoji |-> EmotionMeta(label).emoji,
                   color |-> EmotionMeta(label).color]]
MoodEmotionData ==
    {Dominant("joy", One), Dominant("sadness", 0),
     Dominant("joy", One + 1), Dominant("sadness", -1),
     [label |-> "joy", confidence |-> 9000, emoji |-> EmotionMeta("joy").emoji,
      color |-> EmotionMeta("joy").color]}

\* func.now() of the next row: later than that of every row written before
NextCreatedAt(logs) == IF logs = <<>> THEN 1 ELSE logs[Len(logs)].created_at + 1

\* the row of log_interaction with log_date = date.today() and the server
\* default of created_at (rows are numbered in the order of their creation)
LogInteractionAt(today, usrs, sess, logs, user_id, user_input, emotion_data, verse_ids, session_id, commit_ok) ==
    LET r == LogInteraction(usrs, sess, logs, user_id, user_input, emotion_data,
                            verse_ids, session_id, commit_ok)
        n == Len(r.emotion_logs)
    IN IF r.raised THEN r
       ELSE [r EXCEPT !.emotion_logs[n] =
                          @ @@ [log_date |-> today, created_at |-> NextCreatedAt(logs)]]

\* POST /logs/interaction
ApiLogInteractionB(bound, u, today, emotion_data, verse_ids, session_id, commit_ok) ==
    /\ u \in users
    /\ api.op = "none"
    /\ Len(emotion_logs) < bound
    /\ NextCreatedAt(emotion_logs) <= MaxCreatedAt
    \* date.today() does not go back
    /\ emotion_logs # <<>> => today >= emotion_logs[Len(emotion_logs)].log_date
    /\ LET r == LogInteractionAt(today, users, sessions, emotion_logs, u,
                                 [kind |-> "input", len |-> 1],
                                 emotion_data, verse_ids, session_id, commit_ok)
           answer(status) == [op |-> "log_interaction", user |-> u, status |-> status,
                              emotion_data |-> emotion_data, session_id |-> session_id]
       IN IF "dominant" \notin DOMAIN emotion_data
          THEN /\ api' = answer(400)
               /\ UNCHANGED emotion_logs
          ELSE /\ emotion_logs' = r.emotion_logs
               /\ api' = answer(IF r.raised THEN 500 ELSE 200)
    /\ UNCHANGED <<users, sessions, messages, am, chat, chats>>

ApiLogInteraction(u, today, emotion_data, verse_ids, commit_ok) ==
    ApiLogInteractionB(MoodMaxLogs, u, today, emotion_data, verse_ids, NoId, commit_ok)

\* the rows of the user with start_date <= log_date <= end_date
RECURSIVE FilterByDate(_, _, _, _)
FilterByDate(logs, user_id, start_date, end_date) ==
    IF logs = <<>> THEN <<>>
    ELSE LET l == Head(logs)
             rest == FilterByDate(Tail(logs), user_id, start_date, end_date)
         IN IF l.user_id = user_id /\ l.log_date >= start_date /\ l.log_date <= end_date
            THEN <<l>> \o rest ELSE rest

\* (a variant ordered by created_at ascending within a date)
RECURSIVE InsertByDateCreated_Asc(_, _)
InsertByDateCreated_Asc(l, sorted) ==
    IF sorted = <<>> THEN <<l>>
    ELSE LET h == Head(sorted) IN
         IF \/ h.log_date > l.log_date
            \/ (h.log_date = l.log_date /\ h.created_at <= l.created_at)
         THEN <<h>> \o InsertByDateCreated_Asc(l, Tail(sorted))
         ELSE <<l>> \o sorted

\* order_by(log_date.desc(), created_at.desc())
RECURSIVE InsertByDateCreated(_, _)
InsertByDateCreated(l, sorted) ==
    IF sorted = <<>> THEN <<l>>
    ELSE LET h == Head(sorted) IN
         IF \/ h.log_date > l.log_date
            \/ (h.log_date = l.log_date /\ h.created_at >= l.created_at)
         THEN <<h>> \o InsertByDateCreated(l, Tail(sorted))
         ELSE <<l>> \o sorted

RECURSIVE OrderByDateCreated(_)
OrderByDateCreated(logs) ==
    IF logs = <<>> THEN <<>>
    ELSE InsertByDateCreated(Head(logs), OrderByDateCreated(Tail(logs)))

\* set(log.verse_ids or [])
VerseIdSet(verse_ids) == {verse_ids[i] : i \in 1..Len(verse_ids)}

\* the loop over the ordered rows: the first row met for a date makes the
\* entry of that date, every later row of the date only adds its verse ids.
\* verse_ids is kept as the set of its elements (the order of list(set) is
\* not determined).
RECURSIVE DailyEmotions(_, _)
DailyEmotions(ordered, daily_emotions) ==
    IF ordered = <<>> THEN daily_emotions
    ELSE LET log == Head(ordered)
             known == {i \in 1..Len(daily_emotions) :
                          daily_emotions[i].date = log.log_date}
         IN IF known = {}
            THEN DailyEmotions(Tail(ordered),
                     Append(daily_emotions,
                            [date |-> log.log_date,
                             emotion |-> log.dominant_emotion,
                             emoji |-> log.emotion_emoji,
                             color |-> log.emotion_color,
                             confidence |-> log.emotion_confidence,
                             verse_ids |-> VerseIdSet(log.verse_ids),
                             summary |-> log.user_input]))
            ELSE LET i == CHOOSE i \in known : TRUE IN
                 DailyEmotions(Tail(ordered),
                     [daily_emotions EXCEPT ![i].verse_ids =
                                                @ \cup VerseIdSet(log.verse_ids)])

RECURSIVE InsertEntryByDate(_, _)
InsertEntryByDate(e, sorted) ==
    IF sorted = <<>> THEN <<e>>
    ELSE IF Head(sorted).date >= e.date
         THEN <<Head(sorted)>> \o InsertEntryByDate(e, Tail(sorted))
         ELSE <<e>> \o sorted

\* mood_entries.sort(key=lambda x: x.date, reverse=True): a stable sort
RECURSIVE SortEntriesByDate(_)
SortEntriesByDate(entries) ==
    IF entries = <<>> THEN <<>>
    ELSE InsertEntryByDate(entries[Len(entries)],
                           SortEntriesByDate(SubSeq(entries, 1, Len(entries) - 1)))

GetMoodData(logs, user_id, start_date, end_date) ==
    SortEntriesByDate(
        DailyEmotions(OrderByDateCreated(FilterByDate(logs, user_id, start_date,
                                                      end_date)), <<>>))

\* GET /logs/mood
ApiGetMoodData(u, start_date, end_date) ==
    /\ u \in users
    /\ api.op = "none"
    /\ LET answer(status, entries) ==
               [op |-> "get_mood_data", user |-> u, start_date |-> start_date,
                end_date |-> end_date, status |-> status, entries |-> entries]
       IN IF start_date > end_date THEN api' = answer(400, <<>>)
          ELSE IF end_date - start_date > MaxSpan THEN api' = answer(400, <<>>)
          ELSE api' = answer(200, GetMoodData(emotion_logs, u, start_date, end_date))
    /\ UNCHANGED <<users, sessions, messages, emotion_logs, am, chat, chats>>

NextMood ==
    \/ \E u \in Users : api.op = "none" /\ Login(u)
    \/ /\ api.op = "none"
       /\ \E u \in Users, today \in MoodDates, emotion_data \in MoodEmotionData,
             verse_ids \in {<<>>, <<"BG2.47">>, <<"BG6.5">>}, commit_ok \in BOOLEAN :
             ApiLogInteraction(u, today, emotion_data, verse_ids, commit_ok)
    \/ /\ api.op = "none"
       /\ \E u \in Users, start_date \in MoodDates, end_date \in MoodDates :
             ApiGetMoodData(u, start_date, end_date)
    \/ ApiReturn

SpecMood == Init /\ [][NextMood]_vars

(* --------------------------- authentication --------------------------- *)
\* The Authorization header of a request, what firebase_service.verify_token
\* does with its token ("ok": a decoded token, "rejected": None, "raised": an
\* exception) and the uid of the decoded token ("" when it has none).
Credentials ==
    {[header |-> FALSE, verifier |-> "none", uid |-> ""],
     [header |-> TRUE, verifier |-> "rejected", uid |-> ""],
     [header |-> TRUE, verifier |-> "raised", uid |-> ""],
     [header |-> TRUE, verifier |-> "ok", uid |-> ""],
     [header |-> TRUE, verifier |-> "ok", uid |-> "u1"],
     [header |-> TRUE, verifier |-> "ok", uid |-> "u2"]}

\* missing_status is the status HTTPBearer answers a request without
\* Authorization header with: 403 or 401, depending on the release of the
\* framework
VerifyFirebaseToken(credentials, initialized, missing_status) ==
    IF ~credentials.header THEN [status |-> missing_status, uid |-> ""]
    ELSE IF ~initialized THEN [status |-> 401, uid |-> ""]
    ELSE IF credentials.verifier # "ok" THEN [status |-> 401, uid |-> ""]
    ELSE [status |-> 200, uid |-> credentials.uid]

GetCurrentUser(usrs, token, commit_ok) ==
    IF token.status # 200 THEN [status |-> token.status, user |-> "", users |-> usrs]
    ELSE IF token.uid = "" THEN [status |-> 401, user |-> "", users |-> usrs]
    ELSE IF ~commit_ok THEN [status |-> 401, user |-> "", users |-> usrs]
    ELSE [status |-> 200, user |-> token.uid, users |-> usrs \cup {token.uid}]

\* (a variant that resolves the user as get_optional_user does: no user
\* instead of an error)
RequireAuth_Optional(usrs, credentials, initialized, missing_status, commit_ok) ==
    LET token == VerifyFirebaseToken(credentials, initialized, missing_status) IN
    IF token.status # 200 \/ token.uid = ""
    THEN [status |-> 200, user |-> "", users |-> usrs]
    ELSE [status |-> 200, user |-> IF token.uid \in usrs THEN token.uid ELSE "",
          users |-> usrs]

RequireAuth(usrs, credentials, initialized, missing_status, commit_ok) ==
    GetCurrentUser(usrs, VerifyFirebaseToken(credentials, initialized, missing_status),
                   commit_ok)

\* the dependency current_user = Depends(require_auth) of POST /chat: when it
\* raises, the request is answered and the handler is not called
ChatRequireAuth(credentials, initialized, missing_status, commit_ok) ==
    /\ chat.pc = "idle"
    /\ LET a == RequireAuth(users, credentials, initialized, missing_status, commit_ok)
       IN /\ users' = a.users
          /\ api' = [op |-> "require_auth", credentials |-> credentials,
                     initialized |-> initialized, status |-> a.status,
                     user |-> a.user]
          /\ chat' = IF a.status = 200 THEN chat
                     ELSE [NewChat EXCEPT !.pc = "rejected", !.status = a.status]
    /\ UNCHANGED <<sessions, messages, emotion_logs, am, chats>>

\* the handler, called with the user that require_auth returned
ChatAuthorized(user_input, sid, mode) ==
    /\ api.op = "require_auth"
    /\ api.status = 200
    /\ ChatReceive(api.user, user_input, sid, mode)

NextAuth ==
    \/ \E credentials \in Credentials, initialized \in BOOLEAN,
          missing_status \in {401, 403}, commit_ok \in BOOLEAN :
          ChatRequireAuth(credentials, initialized, missing_status, commit_ok)
    \/ \E user_input \in UserInputs, sid \in {NoId, UnknownId}, mode \in RequestModes :
          ChatAuthorized(user_input, sid, mode)
    \/ \E classifier \in ClassifierOutcomes : ChatDetectEmotion(classifier)
    \/ \E index \in IndexOutcomes : ChatSearchVerses(index)
    \/ \E db_ok \in BOOLEAN : ChatResolveSession(db_ok)
    \/ \E llm \in LlmOutcomes, fallback_ok \in BOOLEAN : ChatGenerate(llm, fallback_ok)
    \/ \E db_ok \in BOOLEAN : ChatStoreUser(db_ok)
    \/ \E db_ok \in BOOLEAN : ChatStoreAssistant(db_ok)
    \/ \E db_ok \in BOOLEAN : ChatLogInteraction(db_ok)
    \/ ChatRespond
    \/ ChatFinish

SpecAuth == Init /\ [][NextAuth]_vars

(* -------------------------- account deletion --------------------------- *)
AccountMaxMessages == 1
AccountMaxLogs == 2

\* db.delete(current_user) and the commit. The relationships of User to its
\* sessions and emotion logs and of a session to its messages cascade the
\* deletion; the relationship of a session to emotion logs does not: the
\* logs that refer to a deleted session and stay have their session_id set
\* to NULL.
DeleteUser(usrs, sess, msgs, logs, user_id, commit_ok) ==
    LET owned == {sid \in SessionIds : Live(sess, sid) /\ sess[sid].user_id = user_id}
        keepMessage(message) == message.session_id \notin owned
        keepLog(log) == log.user_id # user_id
        kept == SelectSeq(logs, keepLog)
    IN IF ~commit_ok
       THEN [raised |-> TRUE, users |-> usrs, sessions |-> sess, messages |-> msgs,
             emotion_logs |-> logs]
       ELSE [raised |-> FALSE,
             users |-> usrs \ {user_id},
             sessions |-> [sid \in SessionIds |->
                              IF sid \in owned THEN FreeSession ELSE sess[sid]],
             messages |-> SelectSeq(msgs, keepMessage),
             emotion_logs |-> [i \in 1..Len(kept) |->
                                  IF kept[i].session_id \in owned
                                  THEN [kept[i] EXCEPT !.session_id = NoId]
                                  ELSE kept[i]]]

\* DELETE /auth/me
DeleteUserAccount(u, commit_ok) ==
    /\ u \in users
    /\ api.op = "none"
    /\ LET r == DeleteUser(users, sessions, messages, emotion_logs, u, commit_ok) IN
       /\ users' = r.users
       /\ sessions' = r.sessions
       /\ messages' = r.messages
       /\ emotion_logs' = r.emotion_logs
       /\ api' = [op |-> "delete_account", user |-> u,
                  status |-> IF r.raised THEN 500 ELSE 200]
    /\ UNCHANGED <<am, chat, chats>>

NextAccount ==
    \/ \E u \in Users : api.op = "none" /\ Login(u)
    \/ /\ api.op = "none"
       /\ \E u \in Users, mode \in ApiModes : ApiCreateSession(u, mode, TRUE)
    \/ /\ api.op = "none"
       /\ \E u \in Users, sid \in SessionIds, content \in ApiContents :
             ApiAddMessageB(AccountMaxMessages, u, sid, "user", content, Null, TRUE)
    \/ /\ api.op = "none"
       /\ \E u \in Users, session_id \in SessionIds \cup {NoId} :
             ApiLogInteractionB(AccountMaxLogs, u, 1, Dominant("joy", One),
                                <<"BG2.47">>, session_id, TRUE)
    \/ /\ api.op = "none"
       /\ \E u \in Users, commit_ok \in BOOLEAN : DeleteUserAccount(u, commit_ok)
    \/ ApiReturn

SpecAccount == Init /\ [][NextAccount]_vars

(* ------------------------------ claims --------------------------------- *)
MessagesOf(sid) == SelectSession(messages, sid)

\* C2: in every state reached by add_message calls that run one at a time
\* (interleaved with get_context and with calls on other sessions), the
\* i-th message stored for a session carries sequence number i, so the
\* numbers are exactly 1..N with no gap and no duplicate, and the session's
\* message_count equals N.
C2_SequenceMonotonicity ==
    \A sid \in SessionIds :
        Live(sessions, sid) =>
            /\ \A i \in 1..Len(MessagesOf(sid)) :
                   MessagesOf(sid)[i].sequence_number = i
            /\ sessions[sid].message_count = Len(MessagesOf(sid))

C2_Witness ==
    \E sid \in SessionIds, other \in SessionIds :
        /\ sid # other
        /\ Len(MessagesOf(sid)) >= 2
        /\ Len(MessagesOf(other)) >= 1
        /\ messages[Len(messages)].session_id = sid
        /\ messages[1].session_id = sid

\* C3: two add_message calls that overlap on one session never receive the
\* same sequence number: no two stored messages of a session share one.
C3_NoDuplicateSequence ==
    \A i, j \in 1..Len(messages) :
        (i # j /\ messages[i].session_id = messages[j].session_id)
            => messages[i].sequence_number # messages[j].sequence_number

\* C4: once ended_at is set for a session, no step appends a message to it.
C4_NoAppendAfterEnd ==
    [][\A sid \in SessionIds :
          (Live(sessions, sid) /\ sessions[sid].ended_at)
              => SelectSession(messages', sid) = SelectSession(messages, sid)]_vars

(* ---------------------- claims about /chat ----------------------------- *)
Generated == chat.pc \in {"store_user", "store_assistant", "mood_log", "respond", "done"}

\* C1: every chat request that passes validation ends with a 200 response
\* that has a non-empty reflection, an emotion, at least one verse, a
\* session id, the requested mode and a fallback flag, whatever the
\* collaborators did.
C1_AlwaysWellFormedResponse ==
    chat.pc = "done" =>
        /\ chat.status = 200
        /\ chat.response.reflection # <<>>
        /\ chat.response.emotion.label # ""
        /\ Len(chat.response.verses) >= 1
        /\ chat.response.session_id # NoId
        /\ chat.response.interaction_mode = chat.request.interaction_mode
        /\ chat.response.fallback_used \in BOOLEAN

C6_FlagFalseOnlyIfAllSucceeded ==
    (chat.pc = "done" /\ ~chat.response.fallback_used)
        => /\ chat.calls.classifier = "ok"
           /\ chat.calls.retriever = "ok"
           /\ chat.calls.session_store = "ok"
           /\ chat.calls.generator = "ok"

\* C7: when the session-store call of step 3 fails, the pipeline goes on with
\* a throwaway session id, an empty history and fallback_used = true.
C7_SessionFailureSynthesizesId ==
    (Generated /\ chat.calls.session_store = "raised")
        => /\ chat.session_id = ThrowawayId
           /\ chat.conversation_history = <<>>
           /\ chat.fallback_used

\* C8: generate_fallback is called exactly when generate raised, with the
\* request's text, the detected emotion and the retrieved verses, and its text
\* is the reflection; when it raises too the reflection is the handler's
\* template over the emotion label and verses[0]; fallback_used is true
\* after either downgrade.
C8_GenerationDowngrades ==
    Generated =>
        LET c == chat.calls
            t == chat.reflection_text
            v == chat.verses[1]
        IN /\ c.generator = "ok" => (c.fallback = "none" /\ ~c.fallback_args.present)
           /\ c.generator = "raised" =>
                 /\ c.fallback \in {"ok", "raised"}
                 /\ c.fallback_args.user_input = chat.request.user_input
                 /\ c.fallback_args.emotion_data = EmotionDict(chat.emotion)
                 /\ c.fallback_args.verses = chat.verses
                 /\ chat.fallback_used
           /\ c.fallback = "ok" =>
                 /\ t = FallbackReflection(c.fallback_args.emotion_data,
                                           c.fallback_args.verses)
                 /\ t[1] = "I sense you're feeling"
                 /\ t[2] = chat.emotion.label
           /\ c.fallback = "raised" =>
                 t = <<"I understand you're experiencing", chat.emotion.label,
                       "Verse", v.chapter, v.verse, "Sanskrit", v.id, "English", v.id>>

C8_Witness ==
    /\ chat.pc = "done"
    /\ chat.calls.fallback = "raised"
    /\ chat.calls.retriever = "ok"
    /\ chat.calls.classifier = "ok"

\* C9: after a chat request without session_id for which every collaborator
\* and the store succeeded, get_context on the returned session id yields
\* exactly the user's text (role user, sequence 1) and then the reflection
\* (role assistant, sequence 2), and total_messages = 2.
C9_TwoMessagesAfterChat ==
    (/\ chat.pc = "done"
     /\ chat.request.session_id = NoId
     /\ chat.calls.classifier = "ok"
     /\ chat.calls.retriever = "ok"
     /\ chat.calls.session_store = "ok"
     /\ chat.calls.generator = "ok"
     /\ chat.calls.user_write # "DBError"
     /\ chat.calls.assistant_write # "DBError")
        => LET context == GetContext(sessions, messages, chat.response.session_id,
                                     0, TRUE)
           IN /\ ~context.raised
              /\ context.total_messages = 2
              /\ Len(context.messages) = 2
              /\ context.messages[1].role = "user"
              /\ context.messages[1].sequence_number = 1
              /\ context.messages[1].content = chat.request.user_input
              /\ context.messages[2].role = "assistant"
              /\ context.messages[2].sequence_number = 2
              /\ context.messages[2].content.text = chat.response.reflection

\* C10: each of the three writes (user message, assistant message, mood log)
\* is followed by the next one whether or not it failed, and none of them
\* changes what the response is built from; the response returns those values.
C10_WritesDoNotAffectResponse ==
    [][/\ chat.pc \in {"store_user", "store_assistant", "mood_log"} =>
             /\ chat'.pc = (CASE chat.pc = "store_user" -> "store_assistant"
                              [] chat.pc = "store_assistant" -> "mood_log"
                              [] chat.pc = "mood_log" -> "respond")
             /\ chat'.reflection_text = chat.reflection_text
             /\ chat'.emotion = chat.emotion
             /\ chat'.verses = chat.verses
             /\ chat'.session_id = chat.session_id
             /\ chat'.request = chat.request
             /\ chat'.fallback_used = chat.fallback_used
       /\ chat.pc = "respond" =>
             /\ chat'.pc = "done"
             /\ chat'.response.reflection = chat.reflection_text
             /\ chat'.response.emotion = chat.emotion
             /\ chat'.response.verses = chat.verses
             /\ chat'.response.session_id = chat.session_id
             /\ chat'.response.interaction_mode = chat.request.interaction_mode
             /\ chat'.response.fallback_used = chat.fallback_used
             /\ chat.calls.user_write # "none"
             /\ chat.calls.assistant_write # "none"
             /\ chat.calls.mood_log # "none"]_vars

C10_Witness ==
    /\ chat.pc = "done"
    /\ chat.calls.user_write \notin {"none", "ok"}
    /\ chat.calls.assistant_write \notin {"none", "ok"}
    /\ chat.calls.mood_log = "ok"

\* C11: a chat request with an empty text, a text longer than 5000
\* characters or a mode outside {socratic, wisdom, story} is rejected with a
\* 4xx status (400 whose detail names the three valid modes for a bad mode);
\* the rejected request creates no session, message or emotion log and calls
\* no classifier, retriever or generator, up to the moment it is answered.
InvalidRequest(req) ==
    \/ req.user_input.len < 1
    \/ req.user_input.len > MaxInputLen
    \/ req.interaction_mode \notin {"socratic", "wisdom", "story"}

C11_InvalidRequestRejected ==
    [][/\ (chat.pc = "idle" /\ chat'.pc # "idle" /\ InvalidRequest(chat'.request)) =>
             /\ chat'.pc = "rejected"
             /\ chat'.status \in 400..499
             /\ (chat'.request.user_input.len \in 1..MaxInputLen) =>
                    /\ chat'.status = 400
                    /\ \A m \in {"socratic", "wisdom", "story"} :
                          \E i \in DOMAIN chat'.detail : chat'.detail[i] = m
             /\ chat'.calls = NoCalls
             /\ <<sessions, messages, emotion_logs>>' = <<sessions, messages, emotion_logs>>
       /\ (chat.pc = "idle" /\ chat'.pc = "rejected") => InvalidRequest(chat'.request)
       /\ chat.pc = "rejected" =>
             /\ chat'.pc = "idle"
             /\ <<sessions, messages, emotion_logs>>' = <<sessions, messages, emotion_logs>>
      ]_vars

C11_Witness ==
    /\ chat.pc = "rejected"
    /\ chat.status = 400
    /\ chat.request.interaction_mode = "invalid"
    /\ chat.request.session_id = NoId

(* -------------------- claims about the store --------------------------- *)
\* a step in which the endpoint op answered a request
Answered(op) == api'.op = op /\ (api' # api \/ sessions' # sessions \/ messages' # messages)

\* C12: an end_session by the owner of an existing session that has not
\* ended succeeds (unless the commit itself fails, which changes nothing) and
\* sets ended_at and the summary when one is given; on a session that has
\* ended it fails with the invalid-state error (400) and changes nothing;
\* once set, ended_at and the summary of a session never change.
C12_EndSessionOnce ==
    [][/\ Answered("end_session") =>
             LET sid == api'.session_id
                 s == api'.request.summary
             IN (Live(sessions, sid) /\ sessions[sid].user_id = api'.request.user) =>
                   IF ~sessions[sid].ended_at
                   THEN /\ api'.status \in {200, 500}
                        /\ api'.status = 200 =>
                              sessions' = [sessions EXCEPT
                                             ![sid].ended_at = TRUE,
                                             ![sid].summary = IF s # "" THEN s ELSE @]
                        /\ api'.status = 500 => sessions' = sessions
                   ELSE /\ api'.status = 400
                        /\ sessions' = sessions
       /\ \A sid \in SessionIds :
             (Live(sessions, sid) /\ sessions[sid].ended_at) =>
                 /\ sessions'[sid].ended_at
                 /\ sessions'[sid].summary = sessions[sid].summary
      ]_vars

C12_Witness ==
    /\ api.op = "end_session"
    /\ api.status = 400
    /\ api.request.summary = "summary"
    /\ Live(sessions, api.session_id)
    /\ sessions[api.session_id].user_id = api.request.user
    /\ sessions[api.session_id].ended_at
    /\ sessions[api.session_id].summary = ""

\* C13: a get_context with window size W >= 1 on an existing session
\* returns at most W messages, in strictly increasing sequence-number order,
\* and total_messages is the number of messages stored for the session.
C13_WindowCorrectness ==
    [][(api' # api /\ api'.op = "get_context" /\ api'.status = 200
        /\ api'.request.window_size >= 1) =>
          LET ms == api'.messages IN
          /\ Len(ms) <= api'.request.window_size
          /\ \A i \in 1..(Len(ms) - 1) :
                ms[i].sequence_number < ms[i + 1].sequence_number
          /\ api'.total_messages = Len(SelectSession(messages, api'.session_id))
      ]_vars

\* C14: get_context returns exactly the min(W, N) messages of the session
\* with the highest sequence numbers, oldest first, where N is the number of
\* messages stored for the session and W is 10 when no window size is given.
C14_MostRecentSuffix ==
    (api.op = "get_context" /\ api.status = 200) =>
        LET own == MessagesOf(api.session_id)
            N == Len(own)
            W == IF api.request.window_size = 0 THEN 10 ELSE api.request.window_size
            k == IF W < N THEN W ELSE N
        IN /\ Len(api.messages) = k
           /\ api.messages = SubSeq(own, N - k + 1, N)
           /\ \A i \in 1..k : api.messages[i].sequence_number = N - k + i
           /\ api.total_messages = N

C14_Witness ==
    /\ api.op = "get_context"
    /\ api.status = 200
    /\ api.request.window_size = 0
    /\ Len(MessagesOf(api.session_id)) = 11
    /\ Len(api.messages) = 10
    /\ api.messages[1].sequence_number = 2
    /\ \E sid \in SessionIds : sid # api.session_id /\ MessagesOf(sid) # <<>>

\* C15: add_message on a session id that names no session fails with the
\* not-found error (ValueError) and every failed add_message (unknown
\* session or failed commit) leaves sessions and messages unchanged; a
\* message is inserted only by a call that succeeds, and the same commit
\* writes the session's counter as the count the call read plus one.
C15_AddMessageAtomic ==
    [][/\ \A w \in Workers :
             /\ (am[w].pc = "idle" /\ am'[w].pc # "idle"
                 /\ ~Live(sessions, am'[w].session_id)) =>
                   /\ am'[w].pc = "raised"
                   /\ am'[w].error = "ValueError"
             /\ (am[w].pc # "raised" /\ am'[w].pc = "raised") =>
                   /\ sessions' = sessions
                   /\ messages' = messages
             /\ (am[w].pc = "last_read" /\ am'[w].pc = "returned") =>
                   LET sid == am[w].session_id IN
                   /\ Len(messages') = Len(messages) + 1
                   /\ SubSeq(messages', 1, Len(messages)) = messages
                   /\ messages'[Len(messages')].session_id = sid
                   /\ sessions' = [sessions EXCEPT
                                     ![sid].message_count = am[w].read_count + 1]
       /\ messages' # messages =>
             \E w \in Workers : am[w].pc = "last_read" /\ am'[w].pc = "returned"
       /\ (\E sid \in SessionIds :
              sessions'[sid].message_count # sessions[sid].message_count) =>
             Len(messages') = Len(messages) + 1
      ]_vars

C15_Witness ==
    /\ messages # <<>>
    /\ \E w \in Workers : am[w].pc = "raised" /\ am[w].error = "ValueError"
    /\ \E w \in Workers : am[w].pc = "raised" /\ am[w].error = "DBError"

\* C16: whenever no add_message call is in flight, the message_count of every
\* session equals the number of messages stored for that session, also when
\* the calls that committed ran concurrently.
C16_CountMatchesMessages ==
    (\A w \in Workers : am[w].pc \in {"idle", "returned", "raised"}) =>
        \A sid \in SessionIds :
            Live(sessions, sid) =>
                sessions[sid].message_count = Len(MessagesOf(sid))

\* C17: the add-message, get-context and end-session endpoints answer 404
\* when the session id names no session and 403 when the session exists but
\* belongs to another user.
C17_NotFoundAndForbidden ==
    api.op \in {"add_message", "get_context", "end_session"} =>
        /\ ~Live(sessions, api.session_id) => api.status = 404
        /\ (Live(sessions, api.session_id)
            /\ sessions[api.session_id].user_id # api.request.user) => api.status = 403

\* a valid chat request in progress that names another user's session
ForeignSession ==
    /\ chat.pc \notin {"idle", "rejected"}
    /\ Live(sessions, chat.request.session_id)
    /\ sessions[chat.request.session_id].user_id # chat.request.user

\* C18: a chat request that carries the session id of another user's session
\* is answered with an authorization error: that session's messages never
\* become the conversation history of the request, no message is appended
\* to it, and the request does not end with a 200 response.
C18_ForeignSessionRejected ==
    ForeignSession =>
        /\ chat.conversation_history = <<>>
        /\ chat.calls.user_write # "ok"
        /\ chat.calls.assistant_write # "ok"
        /\ chat.pc # "done"

\* C19: for every threshold in [0, 1] and every classifier behaviour,
\* detect_emotion returns a non-empty list sorted by descending confidence
\* and get_dominant_emotion returns its first entry, which has a label, an
\* emoji, a color and a confidence in [0, 1]; when the classifier raises or
\* no score reaches the threshold the list is the single neutral entry with
\* confidence 0.5, and otherwise it has one entry per score that reaches it.
NoneReaches(results, threshold) ==
    \A i \in 1..Len(results) : results[i].score < threshold

C19_EmotionAdapterTotal ==
    api.op = "detect_emotion" =>
        LET es == api.emotions
            d == api.dominant
            c == api.classifier
        IN /\ es # <<>>
           /\ \A i \in 1..Len(es), j \in 1..Len(es) :
                 i < j => es[i].confidence >= es[j].confidence
           /\ d = es[1]
           /\ DOMAIN d = {"label", "confidence", "emoji", "color"}
           /\ d.label # "" /\ d.emoji # "" /\ d.color # ""
           /\ d.confidence >= 0 /\ d.confidence <= One
           /\ IF c.raised \/ NoneReaches(c.results, api.threshold)
              THEN es = <<[label |-> "neutral", confidence |-> 5000,
                           emoji |-> "neutral-face", color |-> "#F3F4F6"]>>
              ELSE Len(es) = Cardinality({i \in 1..Len(c.results) :
                                             c.results[i].score >= api.threshold})

C19_Witness ==
    /\ api.op = "detect_emotion"
    /\ ~api.classifier.raised
    /\ Len(api.classifier.results) = 3
    /\ Len(api.emotions) = 2
    /\ api.classifier.results[1].score < api.classifier.results[3].score
    /\ api.classifier.results[1].score >= api.threshold
    /\ api.emotions[1].confidence > api.emotions[2].confidence

(* ------------------ claims about mood analytics ------------------------ *)
\* the logs that the analysis just answered was computed from
Analysed == WindowLogs(emotion_logs, api.user, RangeDays(api.time_range))

HasFinding(patterns, type) == \E i \in 1..Len(patterns) : patterns[i].type = type

\* C20: for every user with exactly 2 emotion logs inside the analysed
\* window, identify_patterns returns an empty list.
C20_TwoLogsNoPatterns ==
    (api.op = "identify_patterns" /\ Len(Analysed) = 2) => api.patterns = <<>>

\* C20 (amended): for every user with exactly 2 emotion logs inside the
\* analysed window, identify_patterns returns no frequency and no diversity
\* finding, and the list is empty unless the two logs fall on the same
\* weekday with the same emotion (one temporal finding) or lie one in the
\* first and one in the last 7-day bucket of the window with a positive
\* emotion only in the last (one trend finding).
C20_TwoLogsFindings ==
    (api.op = "identify_patterns" /\ Len(Analysed) = 2) =>
        LET a == Analysed[1]
            b == Analysed[2]
            days == RangeDays(api.time_range)
            bucket(l) == (days - l.age) \div 7 + 1
            last == days \div 7 + 1
            positive(l) == l.dominant_emotion \in PositiveEmotions
            temporal == a.age % 7 = b.age % 7
                        /\ a.dominant_emotion = b.dominant_emotion
            trend == \/ bucket(a) = 1 /\ bucket(b) = last /\ ~positive(a) /\ positive(b)
                     \/ bucket(b) = 1 /\ bucket(a) = last /\ ~positive(b) /\ positive(a)
        IN /\ ~HasFinding(api.patterns, "frequency")
           /\ ~HasFinding(api.patterns, "diversity")
           /\ HasFinding(api.patterns, "temporal") <=> temporal
           /\ HasFinding(api.patterns, "trend") <=> trend
           /\ api.patterns = <<>> <=> (~temporal /\ ~trend)
           /\ Len(api.patterns) <= 1

C20_Witness ==
    /\ api.op = "identify_patterns"
    /\ Len(Analysed) = 2
    /\ Len(emotion_logs) = 3
    /\ Analysed[1].dominant_emotion = Analysed[2].dominant_emotion
    /\ api.patterns = <<>>

CountFindings(patterns, type) ==
    Cardinality({i \in 1..Len(patterns) : patterns[i].type = type})

\* C21: identify_patterns returns at most one finding of each of the four
\* types (frequency, temporal, trend, diversity), hence at most four findings.
C21_OneFindingPerType ==
    api.op = "identify_patterns" =>
        /\ \A type \in {"frequency", "temporal", "trend", "diversity"} :
               CountFindings(api.patterns, type) <= 1
        /\ Len(api.patterns) <= 4

\* C21 (amended): identify_patterns returns at most one frequency, one trend
\* and one diversity finding, and at most one temporal finding per weekday,
\* hence at most ten findings.
C21_OneFindingPerTypeAndWeekday ==
    api.op = "identify_patterns" =>
        /\ \A type \in {"frequency", "trend", "diversity"} :
               CountFindings(api.patterns, type) <= 1
        /\ \A i, j \in 1..Len(api.patterns) :
               (/\ api.patterns[i].type = "temporal"
                /\ api.patterns[j].type = "temporal"
                /\ api.patterns[i].day = api.patterns[j].day) => i = j
        /\ CountFindings(api.patterns, "temporal") <= 7
        /\ Len(api.patterns) <= 10

C21_Witness ==
    /\ api.op = "identify_patterns"
    /\ CountFindings(api.patterns, "temporal") = 2
    /\ CountFindings(api.patterns, "frequency") = 1
    /\ CountFindings(api.patterns, "trend") = 1
    /\ CountFindings(api.patterns, "diversity") = 1

\* the logs of the first and of the last 7-day bucket of the analysed window
FirstBucket ==
    LET days == RangeDays(api.time_range) IN
    {i \in 1..Len(Analysed) : days - Analysed[i].age <= 6}

LastBucket ==
    LET days == RangeDays(api.time_range) IN
    {i \in 1..Len(Analysed) : days - Analysed[i].age >= 7 * (days \div 7)}

PositiveIn(bucket) ==
    Cardinality({i \in bucket : Analysed[i].dominant_emotion \in PositiveEmotions})

Trend(kind) ==
    \E i \in 1..Len(api.patterns) :
        api.patterns[i].type = "trend" /\ api.patterns[i].trend = kind

\* C22: the trend detector reports 'improving' exactly when the first and the
\* last 7-day bucket both hold a log and the last holds more positive logs
\* than the first, 'declining' exactly when both hold a log and the first
\* holds more positive logs than the last, and nothing otherwise.
C22_TrendExactlyWhenOvertaken ==
    api.op = "identify_patterns" =>
        LET both == FirstBucket # {} /\ LastBucket # {} IN
        /\ Trend("positive_increase") <=>
               (both /\ PositiveIn(LastBucket) > PositiveIn(FirstBucket))
        /\ Trend("positive_decrease") <=>
               (both /\ PositiveIn(FirstBucket) > PositiveIn(LastBucket))
        /\ CountFindings(api.patterns, "trend") <= 1

\* C22 (amended): 'improving' exactly when both buckets hold a log and the
\* last holds more positive logs than the first; 'declining' exactly when
\* both hold a log, the first holds more positive logs than the last and the
\* last holds at least one positive log; no trend finding otherwise.
C22_TrendDecliningNeedsPositive ==
    api.op = "identify_patterns" =>
        LET both == FirstBucket # {} /\ LastBucket # {} IN
        /\ Trend("positive_increase") <=>
               (both /\ PositiveIn(LastBucket) > PositiveIn(FirstBucket))
        /\ Trend("positive_decrease") <=>
               (/\ both
                /\ PositiveIn(FirstBucket) > PositiveIn(LastBucket)
                /\ PositiveIn(LastBucket) > 0)
        /\ CountFindings(api.patterns, "trend") <= 1

C22_Witness ==
    /\ api.op = "identify_patterns"
    /\ Trend("positive_decrease")
    /\ PositiveIn(FirstBucket) = 2
    /\ PositiveIn(LastBucket) = 1

RECURSIVE SumTotals(_)
SumTotals(weeks) ==
    IF weeks = <<>> THEN 0
    ELSE Head(weeks).total_interactions + SumTotals(Tail(weeks))

RECURSIVE SumValues(_, _)
SumValues(counts, keys) ==
    IF keys = {} THEN 0
    ELSE LET k == CHOOSE k \in keys : TRUE IN
         counts[k] + SumValues(counts, keys \ {k})

\* C30: the weekly_trends buckets of an emotion-stats result over a window
\* that holds a log partition [start_date, end_date]: the first starts at
\* start_date, each next one starts the day after the previous one ends,
\* none spans more than 7 days and the last ends at end_date; every log of
\* the window is counted in the bucket of its date, the bucket totals add up
\* to total_interactions, and so do the values of emotion_counts (an empty
\* window has no buckets and the total 0).
C30_WeeklyBucketsPartition ==
    api.op = "get_emotion_stats" =>
        LET weeks == api.stats.weekly_trends
            days == RangeDays(api.time_range)
            n == Len(weeks)
        IN /\ Analysed # <<>> =>
                 /\ n >= 1
                 /\ weeks[1].week_start = 0
                 /\ weeks[n].week_end = days
                 /\ \A b \in 1..n :
                        /\ weeks[b].week_start <= weeks[b].week_end
                        /\ weeks[b].week_end - weeks[b].week_start + 1 <= 7
                        /\ b < n => weeks[b + 1].week_start = weeks[b].week_end + 1
                        /\ weeks[b].total_interactions =
                               Cardinality({i \in 1..Len(Analysed) :
                                   /\ weeks[b].week_start <= days - Analysed[i].age
                                   /\ days - Analysed[i].age <= weeks[b].week_end})
           /\ Analysed = <<>> => n = 0
           /\ SumTotals(weeks) = api.stats.total_interactions
           /\ api.stats.total_interactions = Len(Analysed)
           /\ SumValues(api.stats.emotion_counts, DOMAIN api.stats.emotion_counts)
                  = api.stats.total_interactions

C30_Witness ==
    /\ api.op = "get_emotion_stats"
    /\ api.time_range = "month"
    /\ api.stats.total_interactions = 3
    /\ Len(api.stats.weekly_trends) = 5
    /\ api.stats.weekly_trends[5].week_end - api.stats.weekly_trends[5].week_start = 2
    /\ api.stats.weekly_trends[5].total_interactions = 2
    /\ api.stats.weekly_trends[1].total_interactions = 1
    /\ Cardinality(DOMAIN api.stats.emotion_counts) = 2

(* ------------------ claims about the mood calendar --------------------- *)
\* the rows that the calendar just answered was computed from
InRange ==
    {i \in 1..Len(emotion_logs) :
        /\ emotion_logs[i].user_id = api.user
        /\ emotion_logs[i].log_date >= api.start_date
        /\ emotion_logs[i].log_date <= api.end_date}

\* C23: get_mood_data returns at most one entry per date, and an entry only
\* (and always) for a date of the requested range on which the user has a
\* log; the emotion, emoji, colour and confidence of the entry are those of
\* the log of that date that was created last, and its verse_ids are the
\* union of the verse ids of all logs of that date.
C23_OneEntryPerDate ==
    (api.op = "get_mood_data" /\ api.status = 200) =>
        LET entries == api.entries IN
        /\ \A i, j \in 1..Len(entries) : entries[i].date = entries[j].date => i = j
        /\ {entries[i].date : i \in 1..Len(entries)}
              = {emotion_logs[i].log_date : i \in InRange}
        /\ \A e \in 1..Len(entries) :
              LET on == {i \in InRange : emotion_logs[i].log_date = entries[e].date}
                  last == CHOOSE i \in on :
                              \A j \in on : emotion_logs[j].created_at
                                               <= emotion_logs[i].created_at
              IN /\ entries[e].emotion = emotion_logs[last].dominant_emotion
                 /\ entries[e].emoji = emotion_logs[last].emotion_emoji
                 /\ entries[e].color = emotion_logs[last].emotion_color
                 /\ entries[e].confidence = emotion_logs[last].emotion_confidence
                 /\ entries[e].verse_ids =
                       UNION {VerseIdSet(emotion_logs[i].verse_ids) : i \in on}

C23_Witness ==
    /\ api.op = "get_mood_data"
    /\ api.status = 200
    /\ Len(api.entries) = 1
    /\ Cardinality(InRange) = 2
    /\ Len(emotion_logs) = 3
    /\ \E i, j \in InRange :
          /\ i < j
          /\ emotion_logs[i].dominant_emotion = "joy"
          /\ emotion_logs[j].dominant_emotion = "sadness"
          /\ emotion_logs[i].log_date = emotion_logs[j].log_date
    /\ \E i \in 1..Len(emotion_logs) :
          /\ emotion_logs[i].user_id # api.user
          /\ emotion_logs[i].log_date = api.entries[1].date
    /\ api.entries[1].emotion = "sadness"
    /\ api.entries[1].verse_ids = {"BG2.47", "BG6.5"}

\* C24: every stored emotion log has 0 <= emotion_confidence <= 1, and a
\* log_interaction whose dominant confidence lies outside [0, 1] fails (the
\* endpoint answers 500) and adds no row.
C24_ConfidenceInUnitInterval ==
    [][/\ \A i \in 1..Len(emotion_logs') :
             /\ emotion_logs'[i].emotion_confidence >= 0
             /\ emotion_logs'[i].emotion_confidence <= One
       /\ (/\ api.op = "none"
           /\ api'.op = "log_interaction"
           /\ "dominant" \in DOMAIN api'.emotion_data
           /\ \/ api'.emotion_data.dominant.confidence < 0
              \/ api'.emotion_data.dominant.confidence > One) =>
             /\ api'.status = 500
             /\ emotion_logs' = emotion_logs
      ]_vars

C24_Witness ==
    /\ api.op = "log_interaction"
    /\ api.status = 500
    /\ "dominant" \in DOMAIN api.emotion_data
    /\ api.emotion_data.dominant.confidence = One + 1
    /\ Len(emotion_logs) = 2
    /\ emotion_logs[1].emotion_confidence = One
    /\ emotion_logs[2].emotion_confidence = 0

(* ------------------ claims about authentication ------------------------ *)
\* the request carries no valid bearer token: no header, a token the
\* verifier rejects or fails on, or a verifier that is not initialised
NoValidToken(a) ==
    \/ ~a.credentials.header
    \/ ~a.initialized
    \/ a.credentials.verifier # "ok"

C26_DeletionCascades ==
    [][(api.op = "none" /\ api'.op = "delete_account" /\ api'.status = 200) =>
          LET u == api'.user
              owned == {sid \in SessionIds :
                           Live(sessions, sid) /\ sessions[sid].user_id = u}
              others(message) == message.session_id \notin owned
              foreign(log) == log.user_id # u
          IN /\ u \notin users'
             /\ \A sid \in SessionIds : ~(Live(sessions', sid) /\ sessions'[sid].user_id = u)
             /\ \A i \in 1..Len(messages') : messages'[i].session_id \notin owned
             /\ \A i \in 1..Len(emotion_logs') : emotion_logs'[i].user_id # u
             /\ users' = users \ {u}
             /\ \A sid \in SessionIds \ owned : sessions'[sid] = sessions[sid]
             /\ messages' = SelectSeq(messages, others)
             /\ emotion_logs' = SelectSeq(emotion_logs, foreign)
      ]_vars

(* ------------------ claims about the frame of the store ---------------- *)
\* C27: the conversation store is append-only: no create_session,
\* add_message, get_context or end_session deletes or changes a message that
\* exists, the only message ever added is the one of an add_message and it
\* belongs to the session of that call, and an add_message or end_session on
\* one session leaves the messages, message_count and ended_at (and every
\* other field) of every other session as they were.
C27_AppendOnlyFrame ==
    [][/\ Len(messages') >= Len(messages)
       /\ \A i \in 1..Len(messages) : messages'[i] = messages[i]
       /\ Len(messages') <= Len(messages) + 1
       /\ Len(messages') = Len(messages) + 1 =>
             /\ api'.op = "add_message"
             /\ messages'[Len(messages')].session_id = api'.session_id
       /\ api'.op \in {"get_context", "create_session", "end_session"} =>
             messages' = messages
       /\ api'.op \in {"add_message", "end_session", "get_context"} =>
             \A sid \in SessionIds \ {api'.session_id} :
                 /\ sessions'[sid] = sessions[sid]
                 /\ SelectSession(messages', sid) = SelectSession(messages, sid)
       /\ api'.op = "create_session" =>
             \A sid \in SessionIds :
                 Live(sessions, sid) =>
                     /\ sessions'[sid] = sessions[sid]
                     /\ SelectSession(messages', sid) = SelectSession(messages, sid)
      ]_vars

C27_Witness ==
    /\ api.op = "end_session"
    /\ api.status = 200
    /\ api.session_id = 1
    /\ sessions[1].ended_at
    /\ Live(sessions, 2)
    /\ ~sessions[2].ended_at
    /\ sessions[2].message_count = 1
    /\ sessions[1].message_count = 2
    /\ Len(messages) = 3

\* C29: through the add-message, get-context and end-session endpoints a
\* caller who does not own the session never changes it and never sees its
\* messages: the request is answered with an error status, the sessions and
\* the messages stay as they were and the response carries no message and no
\* message count.
C29_NonOwnerNoEffect ==
    [][\A op \in {"add_message", "get_context", "end_session"} :
          (/\ Answered(op)
           /\ Live(sessions, api'.session_id)
           /\ sessions[api'.session_id].user_id # api'.request.user) =>
              /\ api'.status >= 400
              /\ sessions' = sessions
              /\ messages' = messages
              /\ api'.messages = <<>>
              /\ api'.total_messages = 0
      ]_vars

C29_Witness ==
    /\ api.op = "get_context"
    /\ api.status >= 400
    /\ Live(sessions, api.session_id)
    /\ sessions[api.session_id].user_id # api.request.user
    /\ sessions[api.session_id].message_count = 2
    /\ ~sessions[api.session_id].ended_at
    /\ api.messages = <<>>

(* ------------------ claims about the mood log of /chat ----------------- *)
\* C28: a chat request whose mood-log write succeeds adds exactly one
\* emotion log, for the caller, whose label, confidence, emoji and colour
\* are those of the emotion of the response and whose verse_ids are the ids
\* of the verses of the response.
C28_MoodLogMatchesResponse ==
    [][/\ (chat.pc = "mood_log" /\ chat'.calls.mood_log = "ok") =>
             LET n == Len(emotion_logs')
                 log == emotion_logs'[n]
             IN /\ n = Len(emotion_logs) + 1
                /\ \A i \in 1..Len(emotion_logs) : emotion_logs'[i] = emotion_logs[i]
                /\ log.user_id = chat.request.user
                /\ log.dominant_emotion = chat.emotion.label
                /\ log.emotion_confidence = chat.emotion.confidence
                /\ log.emotion_emoji = chat.emotion.emoji
                /\ log.emotion_color = chat.emotion.color
                /\ log.verse_ids = VerseIds(chat.verses)
       /\ chat.pc = "respond" =>
             /\ chat'.response.emotion = chat.emotion
             /\ VerseIds(chat'.response.verses) = VerseIds(chat.verses)
      ]_vars

====
